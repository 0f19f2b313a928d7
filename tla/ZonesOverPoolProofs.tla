-------------------------- MODULE ZonesOverPoolProofs --------------------------
(***************************************************************************)
(* Inv is an invariant of ZonesOverPool, and what follows from it, for     *)
(* every page size, every set of sizes a client asks for and every memory. *)
(* First come chunks and zones as values: what taking a chunk, giving one  *)
(* back, adding a zone and removing one do to the zones, the lists, the    *)
(* counters and the owners of chunks and pages.  Last comes what a caller  *)
(* sees: an allocate that fails leaves no trace and is refused only for    *)
(* want of pages, and what the library hands out is a Heap.                *)
(***************************************************************************)
EXTENDS ZonesOverPoolInvariant, BasicFacts

-----------------------------------------------------------------------------
(* The chunks of a page.                                                   *)

\* What the chunks of a zone need to be: whole ones, and at least one.
Shape(zone, ps) ==
    /\ zone.page \in Nat
    /\ ps \in Nat
    /\ zone.chunkSize \in Nat \ {0}
    /\ zone.chunkSize < ps

LEMMA OKShape ==
    ASSUME NEW zone, NEW ps \in Nat, ZoneOK(zone, ps)
    PROVE  Shape(zone, ps)
  BY DEF ZoneOK, ZoneType, Shape

LEMMA ChunkPlace ==
    ASSUME NEW zone, NEW ps, Shape(zone, ps), NEW c \in ChunksIn(zone, ps)
    PROVE  /\ c \in Nat
           /\ zone.page * ps <= c
           /\ c + zone.chunkSize <= zone.page * ps + ps
<1>1. PICK p \in Nat : p = zone.page
  BY DEF Shape
<1>2. PICK s \in Nat \ {0} : s = zone.chunkSize
  BY DEF Shape
<1>3. PICK n \in Nat : n = ps \div s /\ n * s <= ps
  BY <1>2, Division DEF Shape
<1>4. PICK k \in 0..(n - 1) : c = p * ps + k * s
  BY <1>1, <1>2, <1>3 DEF ChunksIn, chunks
<1>5. k \in Nat /\ k < n /\ ps \in Nat
  BY <1>4 DEF Shape
<1>6. k * s \in Nat /\ p * ps \in Nat /\ n * s \in Nat
  BY <1>5, NatProduct
<1>7. k * s + s <= n * s
  BY <1>5, Multiples
<1>8. c \in Nat /\ p * ps <= c /\ c + s <= p * ps + ps
  <2> PICK x \in Nat : x = k * s BY <1>6
  <2> PICK y \in Nat : y = p * ps BY <1>6
  <2> PICK z \in Nat : z = n * s BY <1>6
  <2> QED BY <1>3, <1>4, <1>5, <1>7
<1> QED BY <1>1, <1>2, <1>8

\* Zones on different pages have no chunk in common.
LEMMA ChunksApart ==
    ASSUME NEW y, NEW z, NEW ps, Shape(y, ps), Shape(z, ps), y.page # z.page
    PROVE  ChunksIn(y, ps) \cap ChunksIn(z, ps) = {}
<1> SUFFICES ASSUME NEW c \in ChunksIn(y, ps), c \in ChunksIn(z, ps) PROVE FALSE
  OBVIOUS
<1>1. PICK p \in Nat : p = y.page
  BY DEF Shape
<1>2. PICK q \in Nat : q = z.page
  BY DEF Shape
<1>3. PICK s \in Nat \ {0} : s = y.chunkSize
  BY DEF Shape
<1>4. PICK t \in Nat \ {0} : t = z.chunkSize
  BY DEF Shape
<1>5. c \in Nat /\ p * ps <= c /\ c + s <= p * ps + ps
  BY <1>1, <1>3, ChunkPlace
<1>6. q * ps <= c /\ c + t <= q * ps + ps
  BY <1>2, <1>4, ChunkPlace
<1>7. p * ps \in Nat /\ q * ps \in Nat /\ ps \in Nat
  BY NatProduct DEF Shape
<1>8. c < p * ps + ps /\ c < q * ps + ps
  BY <1>5, <1>6, <1>7
<1> QED BY <1>1, <1>2, <1>5, <1>6, <1>7, <1>8, OnOnePage

\* The start of a page is the first chunk of the zone on it, and of no other.
LEMMA PageStart ==
    ASSUME NEW zone, NEW ps, Shape(zone, ps)
    PROVE  /\ zone.page * ps \in ChunksIn(zone, ps)
           /\ \A p \in Nat : p * ps \in ChunksIn(zone, ps) => p = zone.page
<1>1. PICK q \in Nat : q = zone.page
  BY DEF Shape
<1>2. PICK s \in Nat \ {0} : s = zone.chunkSize /\ s < ps
  BY DEF Shape
<1>3. ps \in Nat
  BY DEF Shape
<1>4. PICK n \in Nat : n = ps \div s
  BY <1>2, <1>3, Division
<1>5. 1 <= n
  BY <1>2, <1>3, <1>4, QuotientAtLeast
<1>6. 0 \in 0..(n - 1) /\ q * ps + 0 * s = q * ps
  BY <1>3, <1>5, NatProduct
<1>7. zone.page * ps \in ChunksIn(zone, ps)
  BY <1>1, <1>2, <1>4, <1>6 DEF ChunksIn, chunks
<1>8. ASSUME NEW p \in Nat, p * ps \in ChunksIn(zone, ps) PROVE p = q
  <2>1. q * ps <= p * ps /\ p * ps + s <= q * ps + ps
    BY <1>1, <1>2, <1>8, ChunkPlace
  <2>2. p * ps \in Nat /\ q * ps \in Nat
    BY <1>3, NatProduct
  <2>3. p * ps < q * ps + ps /\ p * ps < p * ps + ps
    BY <1>2, <1>3, <2>1, <2>2
  <2> QED BY <1>3, <2>1, <2>2, <2>3, OnOnePage
<1> QED BY <1>1, <1>7, <1>8

\* Two chunks of a zone do not overlap.
LEMMA ChunkSpacing ==
    ASSUME NEW zone, NEW ps, Shape(zone, ps),
           NEW c \in ChunksIn(zone, ps), NEW d \in ChunksIn(zone, ps), c # d
    PROVE  c + zone.chunkSize <= d \/ d + zone.chunkSize <= c
<1>1. PICK p \in Nat : p = zone.page
  BY DEF Shape
<1>2. PICK s \in Nat \ {0} : s = zone.chunkSize
  BY DEF Shape
<1>3. PICK n \in Nat : n = ps \div s
  BY <1>2, Division DEF Shape
<1>4. PICK j \in 0..(n - 1) : c = p * ps + j * s
  BY <1>1, <1>2, <1>3 DEF ChunksIn, chunks
<1>5. PICK k \in 0..(n - 1) : d = p * ps + k * s
  BY <1>1, <1>2, <1>3 DEF ChunksIn, chunks
<1>6. j \in Nat /\ k \in Nat /\ ps \in Nat /\ j # k
  BY <1>4, <1>5 DEF Shape
<1>7. p * ps \in Nat /\ j * s \in Nat /\ k * s \in Nat
  BY <1>6, NatProduct
<1>8. CASE j < k
  <2>1. j * s + s <= k * s
    BY <1>6, <1>8, Multiples
  <2> QED BY <1>2, <1>4, <1>5, <1>7, <2>1
<1>9. CASE k < j
  <2>1. k * s + s <= j * s
    BY <1>6, <1>9, Multiples
  <2> QED BY <1>2, <1>4, <1>5, <1>7, <2>1
<1> QED BY <1>6, <1>8, <1>9

LEMMA ChunkSizesType ==
    \A s \in ChunkSizes : s \in Nat \ {0} /\ s >= MinimalAllocSize
<1> SUFFICES ASSUME NEW k \in 0..(AddrBits - 1)
             PROVE  2^k \in Nat \ {0}
  BY DEF ChunkSizes
<1>1. k \in 0..AddrBits
  BY PowersOfTwo
<1> QED BY <1>1, PowersOfTwo

\* A power of two that is large enough exists, and the least is taken.
LEMMA ChunkSizeOf ==
    ASSUME NEW size \in Nat, size <= 2^(AddrBits - 1)
    PROVE  chunkSize(size) \in ChunkSizes /\ size <= chunkSize(size)
<1>1. PICK S : S = {2^k : k \in {l \in 0..(AddrBits - 1) :
                                    2^l >= size /\ 2^l >= MinimalAllocSize}}
  OBVIOUS
<1>2. S \subseteq ChunkSizes /\ \A s \in S : size <= s
  <2> SUFFICES ASSUME NEW l \in 0..(AddrBits - 1), 2^l >= size, 2^l >= MinimalAllocSize
               PROVE  2^l \in ChunkSizes /\ size <= 2^l
    BY <1>1
  <2>1. 2^l \in Nat
    BY PowersOfTwo
  <2> QED BY <2>1, SizesAssumption DEF ChunkSizes
<1>3. S \subseteq Nat
  BY <1>2, ChunkSizesType
<1>4. S # {}
  <2>1. AddrBits - 1 \in 0..(AddrBits - 1) /\ AddrBits - 1 \in 0..AddrBits
    BY PowersOfTwo
  <2>2. 2^(AddrBits - 1) \in Nat
    BY <2>1, PowersOfTwo
  <2>3. 2^(AddrBits - 1) \in S
    BY <1>1, <2>1, <2>2, ChunksFit, SizesAssumption
  <2> QED BY <2>3
<1>5. Min(S) \in S
  BY <1>3, <1>4, MinFacts
<1>6. chunkSize(size) = Min(S)
  BY <1>1 DEF chunkSize
<1> QED BY <1>2, <1>5, <1>6

LEMMA DescChunkSize ==
    /\ zoneDescChunkSize \in ChunkSizes
    /\ zoneIdx(zoneDescChunkSize) = zoneDescIdx
    /\ zoneDescIdx \in ZoneIdx
<1>1. zoneDescChunkSize \in ChunkSizes
  BY ChunkSizeOf, SizesAssumption, ChunksFit DEF zoneDescChunkSize
<1> QED BY <1>1, ChunksFit DEF zoneDescIdx

\* The lists of two chunk sizes are different ones.
LEMMA SmallerIndex ==
    ASSUME NEW i \in 0..(AddrBits - 1), NEW j \in 0..(AddrBits - 1), i < j, i >= 4
    PROVE  zoneIdx(2^i) # zoneIdx(2^j)
<1>1. PICK S : S = {k \in 5..(AddrBits - 1) : 2^k <= 2^i} OBVIOUS
<1>2. PICK T : T = {k \in 5..(AddrBits - 1) : 2^k <= 2^j} OBVIOUS
<1>3. \A k \in 0..(AddrBits - 1) : 2^k \in Nat
  BY PowersOfTwo
<1>4. 2^i < 2^j
  <2>1. j \in 0..AddrBits /\ i \in 0..(j - 1)
    BY PowersOfTwo
  <2> QED BY <2>1, PowersOfTwo
<1>5. S \subseteq T
  <2> SUFFICES ASSUME NEW k \in 5..(AddrBits - 1), 2^k <= 2^i PROVE 2^k <= 2^j
    BY <1>1, <1>2
  <2>1. k \in 0..(AddrBits - 1)
    OBVIOUS
  <2>2. 2^k \in Nat /\ 2^i \in Nat /\ 2^j \in Nat
    BY <1>3, <2>1
  <2> QED BY <1>4, <2>2
<1>6. j \in T /\ j \notin S
  <2>1. j \in 5..(AddrBits - 1)
    BY PowersOfTwo
  <2>2. 2^i \in Nat /\ 2^j \in Nat
    BY <1>3
  <2> QED BY <1>1, <1>2, <1>4, <2>1, <2>2
<1>7. IsFiniteSet(T)
  <2>1. IsFiniteSet(5..(AddrBits - 1))
    BY PowersOfTwo, FS_Interval
  <2> QED BY <1>2, <2>1, FS_Subset
<1>8. Cardinality(T) # Cardinality(S)
  BY <1>5, <1>6, <1>7, FS_Subset
<1> QED BY <1>1, <1>2, <1>8 DEF zoneIdx

LEMMA SameIndex ==
    ASSUME NEW s \in ChunkSizes, NEW t \in ChunkSizes, zoneIdx(s) = zoneIdx(t)
    PROVE  s = t
<1>1. PICK i \in 0..(AddrBits - 1) : s = 2^i /\ 2^i >= MinimalAllocSize
  BY DEF ChunkSizes
<1>2. PICK j \in 0..(AddrBits - 1) : t = 2^j /\ 2^j >= MinimalAllocSize
  BY DEF ChunkSizes
<1>3. ASSUME NEW k \in 0..(AddrBits - 1), 2^k >= MinimalAllocSize PROVE k >= 4
  <2> SUFFICES ASSUME k < 4 PROVE FALSE
    OBVIOUS
  <2>1. 4 \in 0..AddrBits /\ k \in 0..(4 - 1) /\ k \in 0..AddrBits
    BY PowersOfTwo
  <2>2. 2^k < 2^4 /\ 2^k \in Nat /\ 2^4 \in Nat
    BY <2>1, PowersOfTwo
  <2> QED BY <1>3, <2>2, ChunksFit, SizesAssumption
<1>4. i >= 4 /\ j >= 4
  BY <1>1, <1>2, <1>3
<1>5. ~(i < j) /\ ~(j < i)
  BY <1>1, <1>2, <1>4, SmallerIndex
<1> QED BY <1>1, <1>2, <1>5

-----------------------------------------------------------------------------
(* Zone::init, takeChunk and giveChunk.                                    *)

LEMMA NewZoneFields ==
    ASSUME NEW page, NEW ps, NEW s
    PROVE  /\ newZone(page, ps, s).page = page
           /\ newZone(page, ps, s).chunkSize = s
           /\ newZone(page, ps, s).chunksCount = ps \div s
           /\ newZone(page, ps, s).freeChunksCount = ps \div s
           /\ Full(newZone(page, ps, s))
  BY DEF newZone, Full

\* All the chunks of a new zone are free.
LEMMA NewZoneOK ==
    ASSUME NEW page \in Nat, NEW ps \in Nat, NEW s \in ChunkSizes, s < ps,
           zoneIdx(s) \in ZoneIdx
    PROVE  /\ ZoneOK(newZone(page, ps, s), ps)
           /\ FreeIn(newZone(page, ps, s)) = ChunksIn(newZone(page, ps, s), ps)
<1>1. s \in Nat \ {0}
  BY ChunkSizesType
<1>2. PICK n \in Nat : n = ps \div s
  BY <1>1, Division
<1>3. n >= 1
  BY <1>1, <1>2, QuotientAtLeast
<1>4. PICK free : free = [k \in 1..n |-> page * ps + (n - k) * s]
  OBVIOUS
<1>5. PICK zone : zone = [page |-> page, chunkSize |-> s, chunksCount |-> n,
                          freeChunksCount |-> n, freeChunks |-> free]
  OBVIOUS
<1>6. zone = newZone(page, ps, s)
  BY <1>2, <1>4, <1>5 DEF newZone
<1>7. ASSUME NEW k \in 1..n
      PROVE  /\ n - k \in 0..(n - 1) /\ (n - k) * s \in Nat
             /\ free[k] = page * ps + (n - k) * s /\ free[k] \in Nat
  <2>1. n - k \in Nat /\ n - k \in 0..(n - 1)
    OBVIOUS
  <2>2. (n - k) * s \in Nat /\ page * ps \in Nat
    BY <1>1, <2>1, NatProduct
  <2> QED BY <1>4, <2>1, <2>2
<1>8. free \in Seq(Nat) /\ Len(free) = n /\ DOMAIN free = 1..n
  <2>1. free \in [1..n -> Nat]
    BY <1>4, <1>7
  <2> QED BY <2>1
<1>9. IsInjective(free)
  <2> SUFFICES ASSUME NEW j \in 1..n, NEW k \in 1..n, free[j] = free[k]
               PROVE  j = k
    BY <1>8 DEF IsInjective
  <2>1. PICK x \in Nat : x = n - j
    OBVIOUS
  <2>2. PICK y \in Nat : y = n - k
    OBVIOUS
  <2>3. x * s \in Nat /\ y * s \in Nat /\ page * ps \in Nat
    BY <1>1, NatProduct
  <2>4. x * s = y * s
    BY <1>7, <2>1, <2>2, <2>3
  <2>5. ~(x < y) /\ ~(y < x)
    BY <1>1, <2>3, <2>4, Multiples
  <2> QED BY <2>1, <2>2, <2>5
<1>10. PICK C : C = {page * ps + k * s : k \in 0..(n - 1)}
  OBVIOUS
<1>11. C = ChunksIn(zone, ps)
  BY <1>2, <1>5, <1>10 DEF ChunksIn, chunks
<1>12. Range(free) = C
  <2>1. \A k \in 1..n : free[k] \in C
    BY <1>7, <1>10
  <2>2. ASSUME NEW k \in 0..(n - 1) PROVE page * ps + k * s \in Range(free)
    <3>1. n - k \in 1..n /\ n - (n - k) = k
      OBVIOUS
    <3> QED BY <1>7, <1>8, <3>1 DEF Range
  <2> QED BY <1>8, <1>10, <2>1, <2>2 DEF Range
<1>13. zone \in ZoneType
  BY <1>1, <1>3, <1>5, <1>8 DEF ZoneType
<1>14. ZoneOK(zone, ps)
  BY <1>2, <1>5, <1>8, <1>9, <1>11, <1>12, <1>13 DEF ZoneOK, FreeIn
<1>15. FreeIn(zone) = ChunksIn(zone, ps)
  BY <1>5, <1>11, <1>12 DEF FreeIn
<1> QED BY <1>6, <1>14, <1>15

\* There are as many chunks as the zone counts.
LEMMA ChunksCounted ==
    ASSUME NEW zone, NEW ps \in Nat, ZoneOK(zone, ps)
    PROVE  /\ IsFiniteSet(ChunksIn(zone, ps))
           /\ Cardinality(ChunksIn(zone, ps)) = zone.chunksCount
<1>1. PICK new : new = newZone(zone.page, ps, zone.chunkSize) OBVIOUS
<1>2. /\ ZoneOK(new, ps)
      /\ FreeIn(new) = ChunksIn(new, ps)
  <2>1. /\ zone.page \in Nat /\ zone.chunkSize \in ChunkSizes
        /\ zone.chunkSize < ps /\ zoneIdx(zone.chunkSize) \in ZoneIdx
    BY DEF ZoneOK, ZoneType
  <2> QED BY <1>1, <2>1, NewZoneOK
<1>3. ChunksIn(new, ps) = ChunksIn(zone, ps)
  BY <1>1, NewZoneFields DEF ChunksIn
<1>4. Len(new.freeChunks) = zone.chunksCount
  BY <1>1, <1>2, NewZoneFields DEF ZoneOK
<1>5. new.freeChunks \in Seq(Nat) /\ IsInjective(new.freeChunks)
  BY <1>2 DEF ZoneOK, ZoneType
<1> QED BY <1>2, <1>3, <1>4, <1>5, InjectiveRange DEF FreeIn

LEMMA FreeCounted ==
    ASSUME NEW zone, NEW ps \in Nat, ZoneOK(zone, ps)
    PROVE  /\ IsFiniteSet(FreeIn(zone))
           /\ Cardinality(FreeIn(zone)) = zone.freeChunksCount
           /\ zone.freeChunksCount \in Nat
           /\ zone.freeChunksCount <= zone.chunksCount
           /\ Full(zone) <=> FreeIn(zone) = ChunksIn(zone, ps)
<1>1. /\ zone.freeChunks \in Seq(Nat) /\ IsInjective(zone.freeChunks)
      /\ zone.freeChunksCount = Len(zone.freeChunks)
      /\ FreeIn(zone) \subseteq ChunksIn(zone, ps)
  BY DEF ZoneOK, ZoneType
<1>2. IsFiniteSet(FreeIn(zone)) /\ Cardinality(FreeIn(zone)) = zone.freeChunksCount
  BY <1>1, InjectiveRange DEF FreeIn
<1> QED BY <1>1, <1>2, ChunksCounted, FS_Subset DEF Full

\* A zone with a free chunk hands out the first one of its list.
LEMMA TakeChunkOK ==
    ASSUME NEW zone, NEW ps \in Nat, ZoneOK(zone, ps), zone.freeChunksCount > 0
    PROVE  /\ ZoneOK(takeChunk(zone), ps)
           /\ takeChunk(zone).page = zone.page
           /\ takeChunk(zone).chunkSize = zone.chunkSize
           /\ takeChunk(zone).chunksCount = zone.chunksCount
           /\ takeChunk(zone).freeChunksCount = zone.freeChunksCount - 1
           /\ ChunksIn(takeChunk(zone), ps) = ChunksIn(zone, ps)
           /\ firstChunk(zone) \in FreeIn(zone)
           /\ FreeIn(takeChunk(zone)) = FreeIn(zone) \ {firstChunk(zone)}
           /\ ~Full(takeChunk(zone))
<1>1. /\ zone \in ZoneType
      /\ zone.freeChunksCount = Len(zone.freeChunks)
      /\ IsInjective(zone.freeChunks)
      /\ FreeIn(zone) \subseteq ChunksIn(zone, ps)
  BY DEF ZoneOK
<1>2. PICK s \in Seq(Nat) : s = zone.freeChunks
  BY <1>1 DEF ZoneType
<1>3. PICK t : t = takeChunk(zone) OBVIOUS
<1>4. /\ t.page = zone.page /\ t.chunkSize = zone.chunkSize
      /\ t.chunksCount = zone.chunksCount
      /\ t.freeChunksCount = zone.freeChunksCount - 1
      /\ t.freeChunks = Tail(s)
      /\ t = [page |-> t.page, chunkSize |-> t.chunkSize,
              chunksCount |-> t.chunksCount, freeChunksCount |-> t.freeChunksCount,
              freeChunks |-> t.freeChunks]
  BY <1>1, <1>2, <1>3 DEF takeChunk, ZoneType
<1>5. /\ Tail(s) \in Seq(Nat) /\ Len(Tail(s)) = Len(s) - 1
      /\ Head(s) \in Range(s)
      /\ IsInjective(Tail(s)) /\ Range(Tail(s)) = Range(s) \ {Head(s)}
  BY <1>1, <1>2, TailFacts
<1>6. t.freeChunksCount \in Nat /\ t.freeChunksCount = Len(t.freeChunks)
  BY <1>1, <1>2, <1>4, <1>5
<1>7. t \in ZoneType
  BY <1>1, <1>4, <1>5, <1>6 DEF ZoneType
<1>8. ChunksIn(t, ps) = ChunksIn(zone, ps)
  BY <1>4 DEF ChunksIn
<1>9. FreeIn(t) = FreeIn(zone) \ {firstChunk(zone)} /\ firstChunk(zone) \in FreeIn(zone)
  BY <1>2, <1>4, <1>5 DEF FreeIn, firstChunk
<1>10. ZoneOK(t, ps)
  BY <1>1, <1>4, <1>5, <1>6, <1>7, <1>8, <1>9 DEF ZoneOK
<1>11. ~Full(t)
  <2>1. zone.freeChunksCount \in Nat /\ zone.freeChunksCount <= zone.chunksCount
    BY FreeCounted
  <2>2. zone.chunksCount \in Nat
    BY <1>1 DEF ZoneType
  <2> QED BY <1>4, <2>1, <2>2 DEF Full
<1> QED BY <1>3, <1>4, <1>8, <1>9, <1>10, <1>11

LEMMA GiveChunkOK ==
    ASSUME NEW zone, NEW ps \in Nat, ZoneOK(zone, ps),
           NEW c \in ChunksIn(zone, ps), c \notin FreeIn(zone)
    PROVE  /\ ZoneOK(giveChunk(zone, c), ps)
           /\ giveChunk(zone, c).page = zone.page
           /\ giveChunk(zone, c).chunkSize = zone.chunkSize
           /\ giveChunk(zone, c).chunksCount = zone.chunksCount
           /\ giveChunk(zone, c).freeChunksCount = zone.freeChunksCount + 1
           /\ ChunksIn(giveChunk(zone, c), ps) = ChunksIn(zone, ps)
           /\ FreeIn(giveChunk(zone, c)) = FreeIn(zone) \cup {c}
<1>1. /\ zone \in ZoneType
      /\ zone.freeChunksCount = Len(zone.freeChunks)
      /\ IsInjective(zone.freeChunks)
      /\ FreeIn(zone) \subseteq ChunksIn(zone, ps)
  BY DEF ZoneOK
<1>2. PICK s \in Seq(Nat) : s = zone.freeChunks
  BY <1>1 DEF ZoneType
<1>3. c \in Nat
  BY OKShape, ChunkPlace
<1>4. PICK t : t = giveChunk(zone, c) OBVIOUS
<1>5. /\ t.page = zone.page /\ t.chunkSize = zone.chunkSize
      /\ t.chunksCount = zone.chunksCount
      /\ t.freeChunksCount = zone.freeChunksCount + 1
      /\ t.freeChunks = <<c>> \o s
      /\ t = [page |-> t.page, chunkSize |-> t.chunkSize,
              chunksCount |-> t.chunksCount, freeChunksCount |-> t.freeChunksCount,
              freeChunks |-> t.freeChunks]
  BY <1>1, <1>2, <1>4 DEF giveChunk, ZoneType
<1>6. /\ <<c>> \o s \in Seq(Nat) /\ Len(<<c>> \o s) = Len(s) + 1
      /\ IsInjective(<<c>> \o s) /\ Range(<<c>> \o s) = Range(s) \cup {c}
  BY <1>1, <1>2, <1>3, ConsFacts, ConsInjective DEF FreeIn
<1>7. t.freeChunksCount \in Nat /\ t.freeChunksCount = Len(t.freeChunks)
  BY <1>1, <1>2, <1>5, <1>6
<1>8. t \in ZoneType
  BY <1>1, <1>5, <1>6, <1>7 DEF ZoneType
<1>9. ChunksIn(t, ps) = ChunksIn(zone, ps)
  BY <1>5 DEF ChunksIn
<1>10. FreeIn(t) = FreeIn(zone) \cup {c}
  BY <1>2, <1>5, <1>6 DEF FreeIn
<1>11. ZoneOK(t, ps)
  BY <1>1, <1>5, <1>6, <1>7, <1>8, <1>9, <1>10 DEF ZoneOK
<1> QED BY <1>4, <1>5, <1>9, <1>10, <1>11

-----------------------------------------------------------------------------
(* Zones that keep their pages apart.                                      *)

\* A chunk that is taken and given back leaves no trace.
LEMMA GiveAfterTake ==
    ASSUME NEW zone, NEW ps \in Nat, ZoneOK(zone, ps), zone.freeChunksCount > 0
    PROVE  giveChunk(takeChunk(zone), firstChunk(zone)) = zone
<1>1. /\ zone \in ZoneType /\ zone.freeChunksCount = Len(zone.freeChunks)
      /\ zone.freeChunks \in Seq(Nat)
  BY DEF ZoneOK, ZoneType
<1>2. PICK s, n : s = zone.freeChunks /\ n = zone.freeChunksCount OBVIOUS
<1>3. s \in Seq(Nat) /\ n \in Nat /\ Len(s) > 0
  BY <1>1, <1>2 DEF ZoneType
<1>4. <<Head(s)>> \o Tail(s) = s
  BY <1>3
<1>5. (n - 1) + 1 = n
  BY <1>3
<1>6. PICK given : given = giveChunk(takeChunk(zone), firstChunk(zone)) OBVIOUS
<1>7. DOMAIN zone = {"page", "chunkSize", "chunksCount", "freeChunksCount", "freeChunks"}
  BY <1>1 DEF ZoneType
<1>8. /\ takeChunk(zone).freeChunks = Tail(s) /\ takeChunk(zone).freeChunksCount = n - 1
      /\ firstChunk(zone) = Head(s)
  BY <1>2, <1>7 DEF takeChunk, firstChunk
<1>9. given.freeChunks = s /\ given.freeChunksCount = n
  BY <1>4, <1>5, <1>6, <1>7, <1>8 DEF giveChunk, takeChunk
<1>10. /\ given.page = zone.page /\ given.chunkSize = zone.chunkSize
       /\ given.chunksCount = zone.chunksCount
       /\ DOMAIN given = DOMAIN zone
       /\ given = [x \in DOMAIN given |-> given[x]]
  BY <1>6, <1>7 DEF giveChunk, takeChunk
<1>11. zone = [x \in DOMAIN zone |-> zone[x]]
  BY <1>1 DEF ZoneType
<1>12. \A x \in DOMAIN zone : given[x] = zone[x]
  BY <1>2, <1>7, <1>9, <1>10
<1> QED BY <1>6, <1>10, <1>11, <1>12

LEMMA ZonesApart ==
    ASSUME NEW Z, NEW ps \in Nat, ZonesOK(Z, ps),
           NEW y \in DOMAIN Z, NEW z \in DOMAIN Z, y # z
    PROVE  /\ ChunksIn(Z[y], ps) \cap ChunksIn(Z[z], ps) = {}
           /\ FreeIn(Z[y]) \cap FreeIn(Z[z]) = {}
<1>1. ZoneOK(Z[y], ps) /\ ZoneOK(Z[z], ps) /\ Z[y].page # Z[z].page
  BY DEF ZonesOK
<1>2. ChunksIn(Z[y], ps) \cap ChunksIn(Z[z], ps) = {}
  BY <1>1, OKShape, ChunksApart
<1>3. FreeIn(Z[y]) \subseteq ChunksIn(Z[y], ps) /\ FreeIn(Z[z]) \subseteq ChunksIn(Z[z], ps)
  BY <1>1 DEF ZoneOK
<1> QED BY <1>2, <1>3

LEMMA FreeOfFinite ==
    ASSUME NEW Z, NEW ps \in Nat, ZonesOK(Z, ps), NEW idx
    PROVE  IsFiniteSet(FreeOf(Z, idx)) /\ Cardinality(FreeOf(Z, idx)) \in Nat
<1>1. PICK S : S = ZonesOf(Z, idx) OBVIOUS
<1>2. S \subseteq DOMAIN Z /\ IsFiniteSet(S)
  BY <1>1, FS_Subset DEF ZonesOf, ZonesOK
<1>3. PICK f : f = [z \in S |-> FreeIn(Z[z])] OBVIOUS
<1>4. PICK T : T = {FreeIn(Z[z]) : z \in S} OBVIOUS
<1>5. f \in Surjection(S, T)
  BY <1>3, <1>4 DEF Surjection
<1>6. IsFiniteSet(T)
  BY <1>2, <1>5, FS_Surjection
<1>7. \A U \in T : IsFiniteSet(U)
  BY <1>2, <1>4, FreeCounted DEF ZonesOK
<1>8. IsFiniteSet(UNION T)
  BY <1>6, <1>7, FS_UNION
<1> QED BY <1>1, <1>4, <1>8, FS_CardinalityType DEF FreeOf

\* The counter of a list, and its type.
LEMMA CounterValue ==
    ASSUME NEW Z, NEW F, NEW ps \in Nat, ZonesOK(Z, ps), CountsOK(Z, F),
           NEW idx \in ZoneIdx
    PROVE  F[idx] = Cardinality(FreeOf(Z, idx)) /\ F[idx] \in Nat
  BY FreeOfFinite DEF CountsOK

\* Z1 is Z with another value for z.
Updated(Z1, Z, z, new) ==
    /\ DOMAIN Z1 = DOMAIN Z
    /\ Z1[z] = new
    /\ \A y \in DOMAIN Z : y # z => Z1[y] = Z[y]

LEMMA ExceptUpdates ==
    ASSUME NEW Z, NEW z \in DOMAIN Z, NEW new
    PROVE  Updated([Z EXCEPT ![z] = new], Z, z, new)
  BY DEF Updated

\* A zone is replaced by one on the same page and of the same chunk size.
LEMMA ReplaceZone ==
    ASSUME NEW Z, NEW L, NEW ps \in Nat, ZonesOK(Z, ps), ListsOK(Z, L),
           NEW z \in DOMAIN Z, NEW new, ZoneOK(new, ps),
           new.page = Z[z].page, new.chunkSize = Z[z].chunkSize,
           NEW Z1, Updated(Z1, Z, z, new)
    PROVE  /\ ZonesOK(Z1, ps) /\ ListsOK(Z1, L)
           /\ \A idx : ZonesOf(Z1, idx) = ZonesOf(Z, idx)
<1>1. DOMAIN Z1 = DOMAIN Z /\ Z1[z] = new /\ \A y \in DOMAIN Z : y # z => Z1[y] = Z[y]
  BY DEF Updated
<1>2. \A y \in DOMAIN Z : Z1[y].page = Z[y].page /\ Z1[y].chunkSize = Z[y].chunkSize
  BY <1>1
<1>3. ZonesOK(Z1, ps)
  BY <1>1, <1>2 DEF ZonesOK
<1>4. \A idx : ZonesOf(Z1, idx) = ZonesOf(Z, idx)
  BY <1>1, <1>2 DEF ZonesOf
<1> QED BY <1>3, <1>4 DEF ListsOK

LEMMA FreeOfReplaced ==
    ASSUME NEW Z, NEW ps \in Nat, ZonesOK(Z, ps), NEW z \in DOMAIN Z,
           NEW new, ZoneOK(new, ps), new.chunkSize = Z[z].chunkSize,
           NEW Z1, Updated(Z1, Z, z, new), NEW idx
    PROVE  /\ idx = zoneIdx(Z[z].chunkSize) =>
                 FreeOf(Z1, idx) = (FreeOf(Z, idx) \ FreeIn(Z[z])) \cup FreeIn(new)
           /\ idx # zoneIdx(Z[z].chunkSize) => FreeOf(Z1, idx) = FreeOf(Z, idx)
<1>1. DOMAIN Z1 = DOMAIN Z /\ Z1[z] = new /\ \A y \in DOMAIN Z : y # z => Z1[y] = Z[y]
  BY DEF Updated
<1>2. ZonesOf(Z1, idx) = ZonesOf(Z, idx)
  BY <1>1 DEF ZonesOf
<1>3. CASE idx # zoneIdx(Z[z].chunkSize)
  <2>1. \A y \in ZonesOf(Z, idx) : Z1[y] = Z[y]
    BY <1>1, <1>3 DEF ZonesOf
  <2> QED BY <1>2, <1>3, <2>1 DEF FreeOf
<1>4. CASE idx = zoneIdx(Z[z].chunkSize)
  <2>1. z \in ZonesOf(Z, idx) /\ ZonesOf(Z, idx) \subseteq DOMAIN Z
    BY <1>4 DEF ZonesOf
  <2>2. ASSUME NEW c PROVE c \in FreeOf(Z1, idx) <=>
                              c \in (FreeOf(Z, idx) \ FreeIn(Z[z])) \cup FreeIn(new)
    <3>1. c \in FreeOf(Z1, idx) <=> \E y \in ZonesOf(Z, idx) : c \in FreeIn(Z1[y])
      BY <1>2 DEF FreeOf
    <3>2. c \in FreeOf(Z, idx) <=> \E y \in ZonesOf(Z, idx) : c \in FreeIn(Z[y])
      BY DEF FreeOf
    <3>3. \A y \in ZonesOf(Z, idx) : y # z => FreeIn(Z[y]) \cap FreeIn(Z[z]) = {}
      BY <2>1, ZonesApart
    <3> QED BY <1>1, <2>1, <3>1, <3>2, <3>3
  <2> QED BY <1>4, <2>2
<1> QED BY <1>3, <1>4

-----------------------------------------------------------------------------
(* One chunk is taken or given back, one zone is added or removed.         *)

LEMMA TakeStep ==
    ASSUME NEW Z, NEW L, NEW F, NEW ps \in Nat, Consistent(Z, L, F, ps),
           NEW z \in DOMAIN Z, Z[z].freeChunksCount > 0,
           NEW idx, idx = zoneIdx(Z[z].chunkSize),
           NEW Z1, Updated(Z1, Z, z, takeChunk(Z[z])),
           NEW F1, F1 = [F EXCEPT ![idx] = F[idx] - 1]
    PROVE  Consistent(Z1, L, F1, ps) /\ F[idx] >= 1
<1>1. ZonesOK(Z, ps) /\ ListsOK(Z, L) /\ CountsOK(Z, F) /\ ZoneOK(Z[z], ps)
  BY DEF Consistent, ZonesOK
<1>2. PICK new : new = takeChunk(Z[z]) OBVIOUS
<1>3. PICK c : c = firstChunk(Z[z]) OBVIOUS
<1>4. /\ ZoneOK(new, ps) /\ new.page = Z[z].page /\ new.chunkSize = Z[z].chunkSize
      /\ c \in FreeIn(Z[z]) /\ FreeIn(new) = FreeIn(Z[z]) \ {c}
  BY <1>1, <1>2, <1>3, TakeChunkOK
<1>5. Updated(Z1, Z, z, new)
  BY <1>2
<1>6. ZonesOK(Z1, ps) /\ ListsOK(Z1, L)
  BY <1>1, <1>4, <1>5, ReplaceZone
<1>7. idx \in ZoneIdx
  BY <1>1 DEF ZoneOK
<1>8. FreeIn(Z[z]) \subseteq FreeOf(Z, idx)
  BY DEF FreeOf, ZonesOf
<1>9. /\ FreeOf(Z1, idx) = FreeOf(Z, idx) \ {c}
      /\ \A i \in ZoneIdx : i # idx => FreeOf(Z1, i) = FreeOf(Z, i)
  <2>1. FreeOf(Z1, idx) = (FreeOf(Z, idx) \ FreeIn(Z[z])) \cup FreeIn(new)
    BY <1>1, <1>4, <1>5, FreeOfReplaced
  <2>2. ASSUME NEW i, i # idx PROVE FreeOf(Z1, i) = FreeOf(Z, i)
    BY <1>1, <1>4, <1>5, <2>2, FreeOfReplaced
  <2> QED BY <1>4, <1>8, <2>1, <2>2
<1>10. PICK n \in Nat : n = F[idx] /\ n = Cardinality(FreeOf(Z, idx))
  BY <1>1, <1>7, CounterValue
<1>11. /\ Cardinality(FreeOf(Z1, idx)) = n - 1
       /\ Cardinality(FreeOf(Z1, idx)) \in Nat
  BY <1>1, <1>4, <1>6, <1>8, <1>9, <1>10, FreeOfFinite, FS_RemoveElement
<1>12. CountsOK(Z1, F1)
  BY <1>1, <1>7, <1>9, <1>10, <1>11 DEF CountsOK
<1> QED BY <1>6, <1>10, <1>11, <1>12 DEF Consistent

LEMMA GiveStep ==
    ASSUME NEW Z, NEW L, NEW F, NEW ps \in Nat, Consistent(Z, L, F, ps),
           NEW z \in DOMAIN Z, NEW c \in ChunksIn(Z[z], ps), c \notin FreeIn(Z[z]),
           NEW idx, idx = zoneIdx(Z[z].chunkSize),
           NEW Z1, Updated(Z1, Z, z, giveChunk(Z[z], c)),
           NEW F1, F1 = [F EXCEPT ![idx] = F[idx] + 1]
    PROVE  Consistent(Z1, L, F1, ps)
<1>1. ZonesOK(Z, ps) /\ ListsOK(Z, L) /\ CountsOK(Z, F) /\ ZoneOK(Z[z], ps)
  BY DEF Consistent, ZonesOK
<1>2. PICK new : new = giveChunk(Z[z], c) OBVIOUS
<1>3. /\ ZoneOK(new, ps) /\ new.page = Z[z].page /\ new.chunkSize = Z[z].chunkSize
      /\ FreeIn(new) = FreeIn(Z[z]) \cup {c}
  BY <1>1, <1>2, GiveChunkOK
<1>4. Updated(Z1, Z, z, new)
  BY <1>2
<1>5. ZonesOK(Z1, ps) /\ ListsOK(Z1, L)
  BY <1>1, <1>3, <1>4, ReplaceZone
<1>6. idx \in ZoneIdx
  BY <1>1 DEF ZoneOK
<1>7. FreeIn(Z[z]) \subseteq FreeOf(Z, idx)
  BY DEF FreeOf, ZonesOf
<1>8. /\ FreeOf(Z1, idx) = FreeOf(Z, idx) \cup {c}
      /\ \A i \in ZoneIdx : i # idx => FreeOf(Z1, i) = FreeOf(Z, i)
  <2>1. FreeOf(Z1, idx) = (FreeOf(Z, idx) \ FreeIn(Z[z])) \cup FreeIn(new)
    BY <1>1, <1>3, <1>4, FreeOfReplaced
  <2>2. ASSUME NEW i, i # idx PROVE FreeOf(Z1, i) = FreeOf(Z, i)
    BY <1>1, <1>3, <1>4, <2>2, FreeOfReplaced
  <2> QED BY <1>3, <1>7, <2>1, <2>2
<1>9. c \notin FreeOf(Z, idx)
  <2> SUFFICES ASSUME NEW y \in ZonesOf(Z, idx), c \in FreeIn(Z[y]) PROVE FALSE
    BY DEF FreeOf
  <2>1. y \in DOMAIN Z /\ y # z
    BY DEF ZonesOf
  <2>2. c \in ChunksIn(Z[y], ps)
    BY <1>1, <2>1 DEF ZonesOK, ZoneOK
  <2> QED BY <1>1, <2>1, <2>2, ZonesApart
<1>10. PICK n \in Nat : n = F[idx] /\ n = Cardinality(FreeOf(Z, idx))
  BY <1>1, <1>6, CounterValue
<1>11. Cardinality(FreeOf(Z1, idx)) = n + 1
  BY <1>1, <1>8, <1>9, <1>10, FreeOfFinite, FS_AddElement
<1>12. CountsOK(Z1, F1)
  BY <1>1, <1>6, <1>8, <1>10, <1>11 DEF CountsOK
<1> QED BY <1>5, <1>12 DEF Consistent

LEMMA AddStep ==
    ASSUME NEW Z, NEW L, NEW F, NEW ps \in Nat, Consistent(Z, L, F, ps),
           NEW d \in ZoneName, d \notin DOMAIN Z, NEW new, ZoneOK(new, ps),
           \A y \in DOMAIN Z : Z[y].page # new.page,
           NEW idx, idx = zoneIdx(new.chunkSize),
           NEW Z1, Z1 = with(Z, d, new),
           NEW L1, L1 = [L EXCEPT ![idx] = <<d>> \o L[idx]],
           NEW F1, F1 = [F EXCEPT ![idx] = F[idx] + new.freeChunksCount]
    PROVE  Consistent(Z1, L1, F1, ps)
<1>1. ZonesOK(Z, ps) /\ ListsOK(Z, L) /\ CountsOK(Z, F)
  BY DEF Consistent
<1>2. /\ DOMAIN Z1 = DOMAIN Z \cup {d} /\ Z1[d] = new
      /\ \A y \in DOMAIN Z : Z1[y] = Z[y]
  BY DEF with
<1>3. idx \in ZoneIdx
  BY DEF ZoneOK
<1>4. ZonesOK(Z1, ps)
  <2>1. DOMAIN Z1 \subseteq ZoneName /\ IsFiniteSet(DOMAIN Z1)
    BY <1>1, <1>2, FS_AddElement DEF ZonesOK
  <2>2. \A z \in DOMAIN Z1 : ZoneOK(Z1[z], ps)
    BY <1>1, <1>2 DEF ZonesOK
  <2>3. \A y, z \in DOMAIN Z1 : y # z => Z1[y].page # Z1[z].page
    BY <1>1, <1>2 DEF ZonesOK
  <2> QED BY <2>1, <2>2, <2>3 DEF ZonesOK
<1>5. /\ ZonesOf(Z1, idx) = ZonesOf(Z, idx) \cup {d}
      /\ \A i \in ZoneIdx : i # idx => ZonesOf(Z1, i) = ZonesOf(Z, i)
  BY <1>2 DEF ZonesOf
<1>6. ListsOK(Z1, L1)
  <2>1. L[idx] \in Seq(ZoneName) /\ IsInjective(L[idx]) /\ Range(L[idx]) = ZonesOf(Z, idx)
    BY <1>1, <1>3 DEF ListsOK
  <2>2. d \notin Range(L[idx])
    BY <2>1 DEF ZonesOf
  <2>3. PICK l : l = <<d>> \o L[idx] OBVIOUS
  <2>4. l \in Seq(ZoneName) /\ IsInjective(l) /\ Range(l) = ZonesOf(Z1, idx)
    BY <1>5, <2>1, <2>2, <2>3, ConsFacts, ConsInjective
  <2> QED BY <1>1, <1>3, <1>5, <2>3, <2>4 DEF ListsOK
<1>7. /\ FreeOf(Z1, idx) = FreeOf(Z, idx) \cup FreeIn(new)
      /\ \A i \in ZoneIdx : i # idx => FreeOf(Z1, i) = FreeOf(Z, i)
  <2>1. \A i : \A z \in ZonesOf(Z, i) : Z1[z] = Z[z]
    BY <1>2 DEF ZonesOf
  <2>2. \A i \in ZoneIdx : i # idx => FreeOf(Z1, i) = FreeOf(Z, i)
    BY <1>5, <2>1 DEF FreeOf
  <2>3. ASSUME NEW c PROVE c \in FreeOf(Z1, idx) <=> c \in FreeOf(Z, idx) \cup FreeIn(new)
    <3>1. c \in FreeOf(Z1, idx) <=> \E y \in ZonesOf(Z1, idx) : c \in FreeIn(Z1[y])
      BY DEF FreeOf
    <3>2. c \in FreeOf(Z, idx) <=> \E y \in ZonesOf(Z, idx) : c \in FreeIn(Z[y])
      BY DEF FreeOf
    <3> QED BY <1>2, <1>5, <2>1, <3>1, <3>2
  <2> QED BY <2>2, <2>3
<1>8. FreeOf(Z, idx) \cap FreeIn(new) = {}
  <2>1. \A y \in DOMAIN Z : FreeIn(Z1[y]) \cap FreeIn(Z1[d]) = {}
    BY <1>2, <1>4, ZonesApart
  <2> QED BY <1>2, <2>1 DEF FreeOf, ZonesOf
<1>9. PICK n \in Nat : n = F[idx] /\ n = Cardinality(FreeOf(Z, idx))
  BY <1>1, <1>3, CounterValue
<1>10. PICK m \in Nat : m = new.freeChunksCount /\ m = Cardinality(FreeIn(new))
                        /\ IsFiniteSet(FreeIn(new))
  BY FreeCounted
<1>11. Cardinality(FreeOf(Z1, idx)) = n + m
  BY <1>1, <1>7, <1>8, <1>9, <1>10, FreeOfFinite, DisjointUnion
<1>12. CountsOK(Z1, F1)
  BY <1>1, <1>3, <1>7, <1>9, <1>10, <1>11 DEF CountsOK
<1> QED BY <1>4, <1>6, <1>12 DEF Consistent

LEMMA RemoveStep ==
    ASSUME NEW Z, NEW L, NEW F, NEW ps \in Nat, Consistent(Z, L, F, ps),
           NEW z \in DOMAIN Z,
           NEW idx, idx = zoneIdx(Z[z].chunkSize),
           NEW Z1, Z1 = without(Z, z),
           NEW L1, L1 = [L EXCEPT ![idx] = RemoveFirst(L[idx], z)],
           NEW F1, F1 = [F EXCEPT ![idx] = F[idx] - Z[z].freeChunksCount]
    PROVE  Consistent(Z1, L1, F1, ps)
<1>1. ZonesOK(Z, ps) /\ ListsOK(Z, L) /\ CountsOK(Z, F) /\ ZoneOK(Z[z], ps)
  BY DEF Consistent, ZonesOK
<1>2. /\ DOMAIN Z1 = DOMAIN Z \ {z}
      /\ \A y \in DOMAIN Z1 : Z1[y] = Z[y]
  BY DEF without
<1>3. idx \in ZoneIdx
  BY <1>1 DEF ZoneOK
<1>4. ZonesOK(Z1, ps)
  BY <1>1, <1>2, FS_RemoveElement DEF ZonesOK
<1>5. /\ ZonesOf(Z1, idx) = ZonesOf(Z, idx) \ {z} /\ z \in ZonesOf(Z, idx)
      /\ \A i \in ZoneIdx : i # idx => ZonesOf(Z1, i) = ZonesOf(Z, i)
  BY <1>2 DEF ZonesOf
<1>6. ListsOK(Z1, L1)
  <2>1. L[idx] \in Seq(ZoneName) /\ IsInjective(L[idx]) /\ Range(L[idx]) = ZonesOf(Z, idx)
    BY <1>1, <1>3 DEF ListsOK
  <2>2. PICK l : l = RemoveFirst(L[idx], z) OBVIOUS
  <2>3. l \in Seq(ZoneName) /\ IsInjective(l) /\ Range(l) = ZonesOf(Z1, idx)
    BY <1>5, <2>1, <2>2, RemoveFirstFacts
  <2> QED BY <1>1, <1>3, <1>5, <2>2, <2>3 DEF ListsOK
<1>7. /\ FreeOf(Z1, idx) = FreeOf(Z, idx) \ FreeIn(Z[z])
      /\ FreeIn(Z[z]) \subseteq FreeOf(Z, idx)
      /\ \A i \in ZoneIdx : i # idx => FreeOf(Z1, i) = FreeOf(Z, i)
  <2>1. \A i : \A y \in ZonesOf(Z1, i) : Z1[y] = Z[y]
    BY <1>2 DEF ZonesOf
  <2>2. \A i \in ZoneIdx : i # idx => FreeOf(Z1, i) = FreeOf(Z, i)
    BY <1>5, <2>1 DEF FreeOf
  <2>3. FreeIn(Z[z]) \subseteq FreeOf(Z, idx)
    BY <1>5 DEF FreeOf
  <2>4. ASSUME NEW c PROVE c \in FreeOf(Z1, idx) <=> c \in FreeOf(Z, idx) \ FreeIn(Z[z])
    <3>1. c \in FreeOf(Z1, idx) <=> \E y \in ZonesOf(Z1, idx) : c \in FreeIn(Z[y])
      BY <2>1 DEF FreeOf
    <3>2. c \in FreeOf(Z, idx) <=> \E y \in ZonesOf(Z, idx) : c \in FreeIn(Z[y])
      BY DEF FreeOf
    <3>3. \A y \in DOMAIN Z : y # z => FreeIn(Z[y]) \cap FreeIn(Z[z]) = {}
      BY <1>1, ZonesApart
    <3>4. ZonesOf(Z, idx) \subseteq DOMAIN Z
      BY DEF ZonesOf
    <3> QED BY <1>5, <3>1, <3>2, <3>3, <3>4
  <2> QED BY <2>2, <2>3, <2>4
<1>8. PICK n \in Nat : n = F[idx] /\ n = Cardinality(FreeOf(Z, idx))
  BY <1>1, <1>3, CounterValue
<1>9. PICK m \in Nat : m = Z[z].freeChunksCount /\ m = Cardinality(FreeIn(Z[z]))
  BY <1>1, FreeCounted
<1>10. Cardinality(FreeOf(Z1, idx)) = n - m
  <2>1. IsFiniteSet(FreeOf(Z, idx)) /\ FreeOf(Z, idx) \cap FreeIn(Z[z]) = FreeIn(Z[z])
    BY <1>1, <1>7, FreeOfFinite
  <2> QED BY <1>7, <1>8, <1>9, <2>1, FS_Difference
<1>11. CountsOK(Z1, F1)
  BY <1>1, <1>3, <1>7, <1>8, <1>9, <1>10 DEF CountsOK
<1> QED BY <1>4, <1>6, <1>11 DEF Consistent

-----------------------------------------------------------------------------
(* getFreeZone and findZone.                                               *)

LEMMA NullIsNoZone == nullptr \notin ZoneName
  BY NamesAssumption DEF ZoneName

LEMMA GetFreeZone ==
    ASSUME pageSize \in Nat, NEW idx \in ZoneIdx,
           ZonesOK(zones, pageSize), ListsOK(zones, zoneLists)
    PROVE  /\ getFreeZone(idx) = nullptr =>
                 \A z \in ZonesOf(zones, idx) : zones[z].freeChunksCount = 0
           /\ getFreeZone(idx) # nullptr =>
                 /\ getFreeZone(idx) \in ZonesOf(zones, idx)
                 /\ zones[getFreeZone(idx)].freeChunksCount > 0
                 /\ zones[Head(zoneLists[idx])].freeChunksCount > 0 =>
                       getFreeZone(idx) = Head(zoneLists[idx])
<1>1. PICK l \in Seq(ZoneName) : l = zoneLists[idx]
  BY DEF ListsOK
<1>2. /\ \A k \in 1..Len(l) : l[k] \in ZonesOf(zones, idx)
      /\ \A z \in ZonesOf(zones, idx) : \E k \in 1..Len(l) : z = l[k]
  BY <1>1 DEF ListsOK, Range
<1>3. PICK I : I = {k \in 1..Len(l) : zones[l[k]].freeChunksCount > 0} OBVIOUS
<1>4. \A z \in ZonesOf(zones, idx) : z \in ZoneName /\ zones[z].freeChunksCount \in Nat
  BY DEF ZonesOK, ZoneOK, ZoneType, ZonesOf
<1>5. CASE I = {}
  <2>1. getFreeZone(idx) = nullptr
    BY <1>1, <1>3, <1>5 DEF getFreeZone, SelectInSeq
  <2>2. \A z \in ZonesOf(zones, idx) : ~(zones[z].freeChunksCount > 0)
    BY <1>2, <1>3, <1>5
  <2> QED BY <1>4, <2>1, <2>2
<1>6. CASE I # {}
  <2>1. I \subseteq Nat
    BY <1>3
  <2>2. PICK m : m = Min(I) OBVIOUS
  <2>3. m \in I /\ \A k \in I : m <= k
    BY <1>6, <2>1, <2>2, MinFacts
  <2>4. m \in 1..Len(l) /\ m # 0 /\ zones[l[m]].freeChunksCount > 0
    BY <1>3, <2>3
  <2>5. getFreeZone(idx) = l[m]
    BY <1>1, <1>3, <1>6, <2>2, <2>4 DEF getFreeZone, SelectInSeq
  <2>6. l[m] # nullptr
    BY <1>2, <1>4, <2>4, NullIsNoZone
  <2>7. ASSUME zones[Head(l)].freeChunksCount > 0 PROVE l[m] = Head(l)
    <3>1. 1 \in 1..Len(l) /\ Head(l) = l[1]
      BY <2>4
    <3>2. 1 \in I
      BY <1>3, <2>7, <3>1
    <3>3. m = 1
      BY <2>3, <2>4, <3>2
    <3> QED BY <3>1, <3>3
  <2> QED BY <1>1, <1>2, <2>4, <2>5, <2>6, <2>7
<1> QED BY <1>5, <1>6

LEMMA FreeZoneExists ==
    ASSUME pageSize \in Nat, NEW idx \in ZoneIdx,
           Consistent(zones, zoneLists, freeChunks, pageSize), freeChunks[idx] >= 1
    PROVE  getFreeZone(idx) # nullptr
<1>1. ZonesOK(zones, pageSize) /\ ListsOK(zones, zoneLists) /\ CountsOK(zones, freeChunks)
  BY DEF Consistent
<1>2. freeChunks[idx] = Cardinality(FreeOf(zones, idx))
  BY <1>1, CounterValue
<1>3. FreeOf(zones, idx) # {}
  BY <1>2, FS_EmptySet
<1>4. PICK z \in ZonesOf(zones, idx) : FreeIn(zones[z]) # {}
  BY <1>3 DEF FreeOf
<1>5. ZoneOK(zones[z], pageSize)
  BY <1>1 DEF ZonesOK, ZonesOf
<1>6. zones[z].freeChunksCount # 0
  BY <1>4, <1>5, FreeCounted, FS_EmptySet
<1> QED BY <1>1, <1>6, GetFreeZone

LEMMA FindZone ==
    ASSUME pageSize \in Nat, ZonesOK(zones, pageSize), NEW c
    PROVE  /\ findZone(c) # nullptr =>
                 /\ findZone(c) \in DOMAIN zones
                 /\ c \in ChunksIn(zones[findZone(c)], pageSize)
           /\ \A z \in DOMAIN zones :
                 c \in ChunksIn(zones[z], pageSize) => findZone(c) = z
           /\ findZone(c) = nullptr =>
                 \A z \in DOMAIN zones : c \notin ChunksIn(zones[z], pageSize)
<1>1. PICK found : found = {z \in DOMAIN zones : c \in ChunksIn(zones[z], pageSize)}
  OBVIOUS
<1>2. findZone(c) = IF found = {} THEN nullptr ELSE CHOOSE z \in found : TRUE
  BY <1>1 DEF findZone, ChunksIn, pageAddr
<1>3. nullptr \notin DOMAIN zones
  BY NullIsNoZone DEF ZonesOK
<1>4. \A y, z \in found : y = z
  BY <1>1, ZonesApart
<1>5. CASE found = {}
  BY <1>1, <1>2, <1>5
<1>6. CASE found # {}
  <2>1. findZone(c) \in found
    BY <1>2, <1>6
  <2> QED BY <1>1, <1>3, <1>4, <2>1
<1> QED BY <1>5, <1>6

-----------------------------------------------------------------------------
(* The owners of chunks, as values: Z the zones, ps the page size, h what  *)
(* the clients hold, X the chunk that is being given back, if any.         *)

Names(Z) == DOMAIN Z \ {initialZone}
UsedBy(Z, h, X) == Names(Z) \cup DOMAIN h \cup X

ZoneOwned(zone, ps, h, used) ==
    /\ FreeIn(zone) \cap used = {}
    /\ ChunksIn(zone, ps) \subseteq FreeIn(zone) \cup used
    /\ \A c \in ChunksIn(zone, ps) \cap DOMAIN h :
          /\ chunkSize(h[c]) = zone.chunkSize
          /\ h[c] <= zone.chunkSize

InDescZoneOf(Z, ps, c) == \E z \in ZonesOf(Z, zoneDescIdx) : c \in ChunksIn(Z[z], ps)

Owners(Z, ps, h, X) ==
    /\ \A d \in Names(Z) : InDescZoneOf(Z, ps, d)
    /\ Names(Z) \cap DOMAIN h = {}
    /\ X \cap (Names(Z) \cup DOMAIN h) = {}
    /\ \A z \in DOMAIN Z : ZoneOwned(Z[z], ps, h, UsedBy(Z, h, X))

LEMMA OwnersOfState == OwnersOK <=> Owners(zones, pageSize, held, Deallocated)
  BY DEF OwnersOK, Owners, Names, UsedBy, ZoneOwned, InDescZoneOf, InDescZone,
         Used, Descriptors

\* Replacing zones by ones with the same chunks moves no descriptor.
LEMMA SameDescZones ==
    ASSUME NEW Z, NEW ps, NEW z \in DOMAIN Z, NEW new, NEW Z1,
           Updated(Z1, Z, z, new), new.chunkSize = Z[z].chunkSize,
           ChunksIn(new, ps) = ChunksIn(Z[z], ps)
    PROVE  \A c : InDescZoneOf(Z1, ps, c) <=> InDescZoneOf(Z, ps, c)
<1>1. /\ DOMAIN Z1 = DOMAIN Z
      /\ \A y \in DOMAIN Z : /\ Z1[y].chunkSize = Z[y].chunkSize
                             /\ ChunksIn(Z1[y], ps) = ChunksIn(Z[y], ps)
  BY DEF Updated
<1> QED BY <1>1 DEF InDescZoneOf, ZonesOf

\* A free chunk is taken: for the moment nobody has it.
LEMMA OwnersTake ==
    ASSUME NEW Z, NEW ps \in Nat, NEW h, ZonesOK(Z, ps), Owners(Z, ps, h, {}),
           NEW z \in DOMAIN Z, Z[z].freeChunksCount > 0,
           NEW c, c = firstChunk(Z[z]),
           NEW Z1, Updated(Z1, Z, z, takeChunk(Z[z]))
    PROVE  /\ Owners(Z1, ps, h, {c})
           /\ c \in ChunksIn(Z[z], ps)
           /\ c \notin Names(Z) \cup DOMAIN h
<1>1. ZoneOK(Z[z], ps)
  BY DEF ZonesOK
<1>2. PICK new : new = takeChunk(Z[z]) OBVIOUS
<1>3. /\ new.chunkSize = Z[z].chunkSize /\ ChunksIn(new, ps) = ChunksIn(Z[z], ps)
      /\ c \in FreeIn(Z[z]) /\ FreeIn(new) = FreeIn(Z[z]) \ {c}
      /\ FreeIn(Z[z]) \subseteq ChunksIn(Z[z], ps)
  BY <1>1, <1>2, TakeChunkOK DEF ZoneOK
<1>4. /\ DOMAIN Z1 = DOMAIN Z /\ Z1[z] = new
      /\ \A y \in DOMAIN Z : y # z => Z1[y] = Z[y]
      /\ Names(Z1) = Names(Z)
  BY <1>2 DEF Updated, Names
<1>5. UsedBy(Z1, h, {c}) = UsedBy(Z, h, {}) \cup {c}
  BY <1>4 DEF UsedBy
<1>6. \A y \in DOMAIN Z : ZoneOwned(Z[y], ps, h, UsedBy(Z, h, {}))
  BY DEF Owners
<1>7. c \notin Names(Z) \cup DOMAIN h
  BY <1>3, <1>6 DEF ZoneOwned, UsedBy
<1>8. \A d \in Names(Z1) : InDescZoneOf(Z1, ps, d)
  BY <1>2, <1>3, <1>4, SameDescZones DEF Owners
<1>9. ZoneOwned(new, ps, h, UsedBy(Z1, h, {c}))
  BY <1>3, <1>5, <1>6 DEF ZoneOwned
<1>10. ASSUME NEW y \in DOMAIN Z, y # z PROVE ZoneOwned(Z[y], ps, h, UsedBy(Z1, h, {c}))
  <2>1. c \notin FreeIn(Z[y])
    BY <1>3, <1>10, ZonesApart
  <2> QED BY <1>5, <1>6, <2>1 DEF ZoneOwned
<1>11. Owners(Z1, ps, h, {c})
  BY <1>4, <1>7, <1>8, <1>9, <1>10 DEF Owners
<1> QED BY <1>3, <1>7, <1>11

\* The chunk that was taken becomes a client's.
LEMMA OwnersHandOut ==
    ASSUME NEW Z, NEW ps \in Nat, NEW h, NEW c, ZonesOK(Z, ps), Owners(Z, ps, h, {c}),
           NEW z \in DOMAIN Z, c \in ChunksIn(Z[z], ps),
           NEW size, chunkSize(size) = Z[z].chunkSize, size <= Z[z].chunkSize,
           NEW h1, h1 = with(h, c, size)
    PROVE  Owners(Z, ps, h1, {})
<1>1. /\ DOMAIN h1 = DOMAIN h \cup {c} /\ h1[c] = size
      /\ \A b \in DOMAIN h : b # c => h1[b] = h[b]
  BY DEF with
<1>2. UsedBy(Z, h1, {}) = UsedBy(Z, h, {c})
  BY <1>1 DEF UsedBy
<1>3. c \notin Names(Z) \cup DOMAIN h
  BY DEF Owners
<1>4. ASSUME NEW y \in DOMAIN Z PROVE ZoneOwned(Z[y], ps, h1, UsedBy(Z, h1, {}))
  <2>1. ZoneOwned(Z[y], ps, h, UsedBy(Z, h1, {}))
    BY <1>2 DEF Owners
  <2>2. c \in ChunksIn(Z[y], ps) => y = z
    BY ZonesApart
  <2> QED BY <1>1, <2>1, <2>2 DEF ZoneOwned
<1> QED BY <1>1, <1>3, <1>4 DEF Owners

\* A client gives a block back.
LEMMA OwnersTakeBack ==
    ASSUME NEW Z, NEW ps \in Nat, NEW h, Owners(Z, ps, h, {}), NEW c \in DOMAIN h,
           NEW h1, h1 = without(h, c)
    PROVE  Owners(Z, ps, h1, {c})
<1>1. DOMAIN h1 = DOMAIN h \ {c} /\ \A b \in DOMAIN h1 : h1[b] = h[b]
  BY DEF without
<1>2. UsedBy(Z, h1, {c}) = UsedBy(Z, h, {})
  BY <1>1 DEF UsedBy
<1>3. \A y \in DOMAIN Z : ZoneOwned(Z[y], ps, h1, UsedBy(Z, h1, {c}))
  BY <1>1, <1>2 DEF Owners, ZoneOwned
<1> QED BY <1>1, <1>3 DEF Owners

\* A chunk goes back to its zone.
LEMMA OwnersGive ==
    ASSUME NEW Z, NEW ps \in Nat, NEW h, NEW c, ZonesOK(Z, ps), Owners(Z, ps, h, {c}),
           NEW z \in DOMAIN Z, c \in ChunksIn(Z[z], ps),
           NEW Z1, Updated(Z1, Z, z, giveChunk(Z[z], c))
    PROVE  Owners(Z1, ps, h, {}) /\ c \notin FreeIn(Z[z])
<1>1. ZoneOK(Z[z], ps)
  BY DEF ZonesOK
<1>2. \A y \in DOMAIN Z : ZoneOwned(Z[y], ps, h, UsedBy(Z, h, {c}))
  BY DEF Owners
<1>3. c \notin FreeIn(Z[z]) /\ c \notin Names(Z) \cup DOMAIN h
  BY <1>2 DEF Owners, ZoneOwned, UsedBy
<1>4. PICK new : new = giveChunk(Z[z], c) OBVIOUS
<1>5. /\ new.chunkSize = Z[z].chunkSize /\ ChunksIn(new, ps) = ChunksIn(Z[z], ps)
      /\ FreeIn(new) = FreeIn(Z[z]) \cup {c}
  BY <1>1, <1>3, <1>4, GiveChunkOK
<1>6. /\ DOMAIN Z1 = DOMAIN Z /\ Z1[z] = new
      /\ \A y \in DOMAIN Z : y # z => Z1[y] = Z[y]
      /\ Names(Z1) = Names(Z)
  BY <1>4 DEF Updated, Names
<1>7. UsedBy(Z1, h, {}) = UsedBy(Z, h, {c}) \ {c}
  BY <1>3, <1>6 DEF UsedBy
<1>8. \A d \in Names(Z1) : InDescZoneOf(Z1, ps, d)
  BY <1>4, <1>5, <1>6, SameDescZones DEF Owners
<1>9. ZoneOwned(new, ps, h, UsedBy(Z1, h, {}))
  BY <1>2, <1>5, <1>7 DEF ZoneOwned
<1>10. ASSUME NEW y \in DOMAIN Z, y # z PROVE ZoneOwned(Z[y], ps, h, UsedBy(Z1, h, {}))
  <2>1. c \notin ChunksIn(Z[y], ps)
    BY <1>10, ZonesApart
  <2> QED BY <1>2, <1>7, <2>1 DEF ZoneOwned
<1>11. Names(Z1) \cap DOMAIN h = {}
  BY <1>6 DEF Owners
<1> QED BY <1>3, <1>6, <1>8, <1>9, <1>10, <1>11 DEF Owners

\* The chunk that was taken becomes the descriptor of a zone on a new page.
LEMMA OwnersAdd ==
    ASSUME NEW Z, NEW ps \in Nat, NEW h, NEW d, ZonesOK(Z, ps), Owners(Z, ps, h, {d}),
           InDescZoneOf(Z, ps, d), d # initialZone, d \notin DOMAIN Z,
           NEW new, ZoneOK(new, ps), FreeIn(new) = ChunksIn(new, ps),
           \A y \in DOMAIN Z : Z[y].page # new.page,
           ChunksIn(new, ps) \cap DOMAIN h = {},
           NEW Z1, Z1 = with(Z, d, new)
    PROVE  Owners(Z1, ps, h, {})
<1>1. /\ DOMAIN Z1 = DOMAIN Z \cup {d} /\ Z1[d] = new
      /\ \A y \in DOMAIN Z : Z1[y] = Z[y]
      /\ Names(Z1) = Names(Z) \cup {d}
  BY DEF with, Names
<1>2. \A c : InDescZoneOf(Z, ps, c) => InDescZoneOf(Z1, ps, c)
  BY <1>1 DEF InDescZoneOf, ZonesOf
<1>3. \A c \in Names(Z) \cup {d} : InDescZoneOf(Z, ps, c)
  BY DEF Owners
<1>4. \A c \in Names(Z1) : InDescZoneOf(Z1, ps, c)
  BY <1>1, <1>2, <1>3
<1>5. UsedBy(Z1, h, {}) = UsedBy(Z, h, {d})
  BY <1>1 DEF UsedBy
<1>6. \A y \in DOMAIN Z : ZoneOwned(Z1[y], ps, h, UsedBy(Z1, h, {}))
  BY <1>1, <1>5 DEF Owners
<1>7. \A y \in DOMAIN Z : ChunksIn(Z[y], ps) \cap ChunksIn(new, ps) = {}
  BY OKShape, ChunksApart DEF ZonesOK
<1>8. ChunksIn(new, ps) \cap (Names(Z) \cup {d}) = {}
  BY <1>3, <1>7 DEF InDescZoneOf, ZonesOf
<1>9. ZoneOwned(new, ps, h, UsedBy(Z1, h, {}))
  BY <1>5, <1>8 DEF ZoneOwned, UsedBy
<1>10. Names(Z1) \cap DOMAIN h = {}
  BY <1>1 DEF Owners
<1> QED BY <1>1, <1>4, <1>6, <1>9, <1>10 DEF Owners

\* A zone with no chunk in use goes; its descriptor is to be given back.
LEMMA OwnersRemove ==
    ASSUME NEW Z, NEW ps \in Nat, NEW h, ZonesOK(Z, ps), Owners(Z, ps, h, {}),
           NEW z \in Names(Z), FreeIn(Z[z]) = ChunksIn(Z[z], ps),
           NEW Z1, Z1 = without(Z, z)
    PROVE  Owners(Z1, ps, h, {z}) /\ InDescZoneOf(Z1, ps, z)
<1>1. /\ DOMAIN Z1 = DOMAIN Z \ {z}
      /\ \A y \in DOMAIN Z1 : Z1[y] = Z[y]
      /\ Names(Z1) = Names(Z) \ {z}
  BY DEF without, Names
<1>2. \A y \in DOMAIN Z : ZoneOwned(Z[y], ps, h, UsedBy(Z, h, {}))
  BY DEF Owners
<1>3. z \in DOMAIN Z
  BY DEF Names
<1>4. \A d \in Names(Z) : d \notin ChunksIn(Z[z], ps)
  BY <1>2, <1>3 DEF ZoneOwned, UsedBy
<1>5. ASSUME NEW d \in Names(Z) PROVE InDescZoneOf(Z1, ps, d)
  <2>1. PICK y \in ZonesOf(Z, zoneDescIdx) : d \in ChunksIn(Z[y], ps)
    BY DEF Owners, InDescZoneOf
  <2>2. y # z
    BY <1>4, <2>1
  <2> QED BY <1>1, <2>1, <2>2 DEF InDescZoneOf, ZonesOf
<1>6. UsedBy(Z1, h, {z}) = UsedBy(Z, h, {})
  BY <1>1 DEF UsedBy
<1>7. \A y \in DOMAIN Z1 : ZoneOwned(Z1[y], ps, h, UsedBy(Z1, h, {z}))
  BY <1>1, <1>2, <1>6
<1>8. Names(Z) \cap DOMAIN h = {}
  BY DEF Owners
<1> QED BY <1>1, <1>5, <1>7, <1>8 DEF Owners

\* A block of whole pages is handed out.
LEMMA OwnersOutsideOut ==
    ASSUME NEW Z, NEW ps \in Nat, NEW h, NEW b, Owners(Z, ps, h, {}),
           \A z \in DOMAIN Z : b \notin ChunksIn(Z[z], ps),
           \A z \in DOMAIN Z : FreeIn(Z[z]) \subseteq ChunksIn(Z[z], ps),
           NEW size, NEW h1, h1 = with(h, b, size)
    PROVE  Owners(Z, ps, h1, {})
<1>1. b \notin Names(Z)
  BY DEF Owners, InDescZoneOf, ZonesOf
<1>2. /\ DOMAIN h1 = DOMAIN h \cup {b}
      /\ \A a \in DOMAIN h : a # b => h1[a] = h[a]
  BY DEF with
<1>3. UsedBy(Z, h1, {}) = UsedBy(Z, h, {}) \cup {b}
  BY <1>2 DEF UsedBy
<1>4. ASSUME NEW z \in DOMAIN Z PROVE ZoneOwned(Z[z], ps, h1, UsedBy(Z, h1, {}))
  <2>1. ZoneOwned(Z[z], ps, h, UsedBy(Z, h, {})) /\ b \notin ChunksIn(Z[z], ps)
    BY DEF Owners
  <2>2. b \notin FreeIn(Z[z])
    BY <2>1
  <2> QED BY <1>2, <1>3, <2>1, <2>2 DEF ZoneOwned
<1>5. Names(Z) \cap DOMAIN h1 = {}
  BY <1>1, <1>2 DEF Owners
<1> QED BY <1>4, <1>5 DEF Owners

\* A block of whole pages has been given back.
LEMMA OwnersOutsideBack ==
    ASSUME NEW Z, NEW ps \in Nat, NEW h, NEW b, Owners(Z, ps, h, {b}),
           \A z \in DOMAIN Z : b \notin ChunksIn(Z[z], ps)
    PROVE  Owners(Z, ps, h, {})
<1>1. UsedBy(Z, h, {b}) = UsedBy(Z, h, {}) \cup {b}
  BY DEF UsedBy
<1>2. ASSUME NEW z \in DOMAIN Z PROVE ZoneOwned(Z[z], ps, h, UsedBy(Z, h, {}))
  <2>1. ZoneOwned(Z[z], ps, h, UsedBy(Z, h, {b})) /\ b \notin ChunksIn(Z[z], ps)
    BY DEF Owners
  <2> QED BY <1>1, <2>1 DEF ZoneOwned
<1> QED BY <1>2 DEF Owners

-----------------------------------------------------------------------------
(* The owners of pages, R being the runs that are allocated.               *)

PageOwners(Z, ps, h, X, R) ==
    /\ \A z \in DOMAIN Z : Z[z].page \in DOMAIN R /\ R[Z[z].page] = 1
    /\ \A p \in DOMAIN R :
          (\A z \in DOMAIN Z : Z[z].page # p) =>
              \/ p * ps \in X
              \/ p * ps \in DOMAIN h /\ h[p * ps] <= R[p] * ps
    /\ \A b \in DOMAIN h :
          (\A z \in DOMAIN Z : b \notin ChunksIn(Z[z], ps)) =>
              \E p \in DOMAIN R : b = p * ps

LEMMA PagesOwnedOfState ==
    ASSUME ZonesOK(zones, pageSize)
    PROVE  PagesOwned <=> PageOwners(zones, pageSize, held, Deallocated, pagesHeld)
<1>1. InZones = UNION {ChunksIn(zones[z], pageSize) : z \in DOMAIN zones}
  BY DEF InZones, zoneChunks, ChunksIn, pageAddr
<1>2. \A b : b \notin InZones <=> \A z \in DOMAIN zones : b \notin ChunksIn(zones[z], pageSize)
  BY <1>1
<1>3. \A z \in DOMAIN zones : \A y \in DOMAIN zones \ {z} : zones[y].page # zones[z].page
  BY DEF ZonesOK
<1> QED BY <1>2, <1>3 DEF PagesOwned, PageOwners, pageAddr

\* The first address of a run is on no page of a zone.
LEMMA RunStart ==
    ASSUME NEW Z, NEW ps \in Nat, ZonesOK(Z, ps), NEW p \in Nat, NEW z \in DOMAIN Z,
           p * ps \in ChunksIn(Z[z], ps)
    PROVE  p = Z[z].page
  BY OKShape, PageStart DEF ZonesOK

LEMMA PagesSame ==
    ASSUME NEW Z, NEW ps, NEW h, NEW X, NEW R, PageOwners(Z, ps, h, X, R),
           NEW z \in DOMAIN Z, NEW new, NEW Z1, Updated(Z1, Z, z, new),
           new.page = Z[z].page, ChunksIn(new, ps) = ChunksIn(Z[z], ps)
    PROVE  PageOwners(Z1, ps, h, X, R)
<1>1. /\ DOMAIN Z1 = DOMAIN Z
      /\ \A y \in DOMAIN Z : /\ Z1[y].page = Z[y].page
                             /\ ChunksIn(Z1[y], ps) = ChunksIn(Z[y], ps)
  BY DEF Updated
<1> QED BY <1>1 DEF PageOwners

\* A chunk of a zone changes hands: no page is concerned.
LEMMA PagesOfChunkOut ==
    ASSUME NEW Z, NEW ps \in Nat, NEW h, NEW R, ZonesOK(Z, ps),
           DOMAIN R \subseteq Nat, NEW z \in DOMAIN Z, NEW c \in ChunksIn(Z[z], ps),
           PageOwners(Z, ps, h, {}, R), NEW size, NEW h1, h1 = with(h, c, size)
    PROVE  PageOwners(Z, ps, h1, {}, R)
<1>1. ASSUME NEW p \in DOMAIN R, \A y \in DOMAIN Z : Z[y].page # p
      PROVE  p * ps # c
  BY <1>1, RunStart
<1>2. /\ DOMAIN h1 = DOMAIN h \cup {c}
      /\ \A b \in DOMAIN h : b # c => h1[b] = h[b]
  BY DEF with
<1>3. ASSUME NEW p \in DOMAIN R, \A y \in DOMAIN Z : Z[y].page # p
      PROVE  p * ps \in DOMAIN h1 /\ h1[p * ps] <= R[p] * ps
  BY <1>1, <1>2, <1>3 DEF PageOwners
<1>4. ASSUME NEW b \in DOMAIN h1, \A y \in DOMAIN Z : b \notin ChunksIn(Z[y], ps)
      PROVE  \E p \in DOMAIN R : b = p * ps
  BY <1>2, <1>4 DEF PageOwners
<1> QED BY <1>3, <1>4 DEF PageOwners

LEMMA PagesOfChunkBack ==
    ASSUME NEW Z, NEW ps \in Nat, NEW h, NEW R, ZonesOK(Z, ps),
           DOMAIN R \subseteq Nat, NEW z \in DOMAIN Z, NEW c \in ChunksIn(Z[z], ps),
           PageOwners(Z, ps, h, {c}, R)
    PROVE  PageOwners(Z, ps, h, {}, R)
<1>1. ASSUME NEW p \in DOMAIN R, \A y \in DOMAIN Z : Z[y].page # p
      PROVE  p * ps # c
  BY <1>1, RunStart
<1> QED BY <1>1 DEF PageOwners

LEMMA PagesMoreGivenBack ==
    ASSUME NEW Z, NEW ps, NEW h, NEW R, PageOwners(Z, ps, h, {}, R), NEW c
    PROVE  PageOwners(Z, ps, h, {c}, R)
  BY DEF PageOwners

LEMMA PagesTakeBack ==
    ASSUME NEW Z, NEW ps, NEW h, NEW R, PageOwners(Z, ps, h, {}, R),
           NEW c \in DOMAIN h, NEW h1, h1 = without(h, c)
    PROVE  PageOwners(Z, ps, h1, {c}, R)
<1>1. DOMAIN h1 = DOMAIN h \ {c} /\ \A b \in DOMAIN h1 : h1[b] = h[b]
  BY DEF without
<1> QED BY <1>1 DEF PageOwners

\* A client has nothing on a page that is not allocated.
LEMMA NothingOnNewPage ==
    ASSUME NEW Z, NEW ps \in Nat, NEW h, NEW R, ZonesOK(Z, ps),
           PageOwners(Z, ps, h, {}, R), DOMAIN R \subseteq Nat,
           NEW new, ZoneOK(new, ps), new.page \notin DOMAIN R
    PROVE  /\ ChunksIn(new, ps) \cap DOMAIN h = {}
           /\ \A y \in DOMAIN Z : Z[y].page # new.page
<1>1. \A y \in DOMAIN Z : Z[y].page # new.page
  BY DEF PageOwners
<1>2. ASSUME NEW b \in DOMAIN h, b \in ChunksIn(new, ps) PROVE FALSE
  <2>1. \A y \in DOMAIN Z : b \notin ChunksIn(Z[y], ps)
    BY <1>1, <1>2, OKShape, ChunksApart DEF ZonesOK
  <2>2. PICK p \in DOMAIN R : b = p * ps
    BY <2>1 DEF PageOwners
  <2>3. p \in Nat /\ p * ps \in ChunksIn(new, ps)
    BY <1>2, <2>2
  <2>4. p = new.page
    BY <2>3, OKShape, PageStart
  <2> QED BY <2>2, <2>4
<1> QED BY <1>1, <1>2

LEMMA PagesAdd ==
    ASSUME NEW Z, NEW ps \in Nat, NEW h, NEW R, PageOwners(Z, ps, h, {}, R),
           NEW d, d \notin DOMAIN Z, NEW new, new.page \notin DOMAIN R,
           NEW Z1, Z1 = with(Z, d, new), NEW R1, R1 = with(R, new.page, 1)
    PROVE  PageOwners(Z1, ps, h, {}, R1)
<1>1. /\ DOMAIN Z1 = DOMAIN Z \cup {d} /\ Z1[d] = new
      /\ \A y \in DOMAIN Z : Z1[y] = Z[y]
  BY DEF with
<1>2. /\ DOMAIN R1 = DOMAIN R \cup {new.page} /\ R1[new.page] = 1
      /\ \A p \in DOMAIN R : R1[p] = R[p]
  BY DEF with
<1>3. \A z \in DOMAIN Z1 : Z1[z].page \in DOMAIN R1 /\ R1[Z1[z].page] = 1
  BY <1>1, <1>2 DEF PageOwners
<1>4. ASSUME NEW p \in DOMAIN R1, \A z \in DOMAIN Z1 : Z1[z].page # p
      PROVE  p * ps \in DOMAIN h /\ h[p * ps] <= R1[p] * ps
  <2>1. p \in DOMAIN R /\ \A z \in DOMAIN Z : Z[z].page # p
    BY <1>1, <1>2, <1>4
  <2> QED BY <1>2, <2>1 DEF PageOwners
<1>5. ASSUME NEW b \in DOMAIN h, \A z \in DOMAIN Z1 : b \notin ChunksIn(Z1[z], ps)
      PROVE  \E p \in DOMAIN R1 : b = p * ps
  <2>1. \A z \in DOMAIN Z : b \notin ChunksIn(Z[z], ps)
    BY <1>1, <1>5
  <2> QED BY <1>2, <2>1 DEF PageOwners
<1> QED BY <1>3, <1>4, <1>5 DEF PageOwners

LEMMA PagesRemove ==
    ASSUME NEW Z, NEW ps \in Nat, NEW h, NEW R, ZonesOK(Z, ps),
           PageOwners(Z, ps, h, {}, R), NEW z \in DOMAIN Z,
           ChunksIn(Z[z], ps) \cap DOMAIN h = {},
           NEW Z1, Z1 = without(Z, z), NEW R1, R1 = without(R, Z[z].page)
    PROVE  PageOwners(Z1, ps, h, {z}, R1)
<1>1. DOMAIN Z1 = DOMAIN Z \ {z} /\ \A y \in DOMAIN Z1 : Z1[y] = Z[y]
  BY DEF without
<1>2. DOMAIN R1 = DOMAIN R \ {Z[z].page} /\ \A p \in DOMAIN R1 : R1[p] = R[p]
  BY DEF without
<1>3. \A y \in DOMAIN Z1 : Z1[y].page \in DOMAIN R1 /\ R1[Z1[y].page] = 1
  BY <1>1, <1>2 DEF PageOwners, ZonesOK
<1>4. ASSUME NEW p \in DOMAIN R1, \A y \in DOMAIN Z1 : Z1[y].page # p
      PROVE  p * ps \in DOMAIN h /\ h[p * ps] <= R1[p] * ps
  <2>1. p \in DOMAIN R /\ \A y \in DOMAIN Z : Z[y].page # p
    BY <1>1, <1>2, <1>4
  <2> QED BY <1>2, <1>4, <2>1 DEF PageOwners
<1>5. ASSUME NEW b \in DOMAIN h, \A y \in DOMAIN Z1 : b \notin ChunksIn(Z1[y], ps)
      PROVE  \E p \in DOMAIN R1 : b = p * ps
  <2>1. \A y \in DOMAIN Z : b \notin ChunksIn(Z[y], ps)
    BY <1>1, <1>5
  <2>2. PICK p \in DOMAIN R : b = p * ps
    BY <2>1 DEF PageOwners
  <2>3. Shape(Z[z], ps)
    BY OKShape DEF ZonesOK
  <2>4. p # Z[z].page
    BY <2>1, <2>2, <2>3, PageStart
  <2> QED BY <1>2, <2>2, <2>4
<1> QED BY <1>3, <1>4, <1>5 DEF PageOwners

LEMMA PagesTakeRun ==
    ASSUME NEW Z, NEW ps \in Nat \ {0}, NEW h, NEW R, PageOwners(Z, ps, h, {}, R),
           DOMAIN R \subseteq Nat, NEW p \in Nat, p \notin DOMAIN R,
           NEW n, NEW size, size <= n * ps,
           NEW h1, h1 = with(h, p * ps, size), NEW R1, R1 = with(R, p, n)
    PROVE  PageOwners(Z, ps, h1, {}, R1)
<1>1. PICK b : b = p * ps OBVIOUS
<1>2. /\ DOMAIN h1 = DOMAIN h \cup {b} /\ h1[b] = size
      /\ \A a \in DOMAIN h : a # b => h1[a] = h[a]
  BY <1>1 DEF with
<1>3. /\ DOMAIN R1 = DOMAIN R \cup {p} /\ R1[p] = n
      /\ \A q \in DOMAIN R : R1[q] = R[q]
  BY DEF with
<1>4. \A z \in DOMAIN Z : Z[z].page \in DOMAIN R1 /\ R1[Z[z].page] = 1
  BY <1>3 DEF PageOwners
<1>5. ASSUME NEW q \in Nat, q # p PROVE q * ps # b
  <2>1. p * ps \in Nat /\ q * ps \in Nat
    BY NatProduct
  <2>2. p * ps < p * ps + ps /\ q * ps < q * ps + ps
    BY <2>1
  <2> QED BY <1>1, <1>5, <2>1, <2>2, OnOnePage
<1>6. ASSUME NEW q \in DOMAIN R1, \A z \in DOMAIN Z : Z[z].page # q
      PROVE  q * ps \in DOMAIN h1 /\ h1[q * ps] <= R1[q] * ps
  <2>1. CASE q = p
    BY <1>1, <1>2, <1>3, <2>1
  <2>2. CASE q # p
    <3>1. q \in DOMAIN R /\ q * ps # b
      BY <1>3, <1>5, <2>2
    <3>2. q * ps \in DOMAIN h /\ h[q * ps] <= R[q] * ps
      BY <1>6, <3>1 DEF PageOwners
    <3> QED BY <1>2, <1>3, <3>1, <3>2
  <2> QED BY <2>1, <2>2
<1>7. ASSUME NEW a \in DOMAIN h1, \A z \in DOMAIN Z : a \notin ChunksIn(Z[z], ps)
      PROVE  \E q \in DOMAIN R1 : a = q * ps
  BY <1>1, <1>2, <1>3, <1>7 DEF PageOwners
<1> QED BY <1>4, <1>6, <1>7 DEF PageOwners

\* b, which is being given back, starts a run, and the run is released; or
\* it starts none.
LEMMA PagesGiveRun ==
    ASSUME NEW Z, NEW ps \in Nat \ {0}, NEW h, NEW R, DOMAIN R \subseteq Nat,
           NEW p \in Nat, PageOwners(Z, ps, h, {p * ps}, R), ZonesOK(Z, ps),
           \A z \in DOMAIN Z : p * ps \notin ChunksIn(Z[z], ps),
           p * ps \notin DOMAIN h,
           NEW R1, R1 = without(R, p)
    PROVE  PageOwners(Z, ps, h, {}, R1)
<1>1. DOMAIN R1 = DOMAIN R \ {p} /\ \A q \in DOMAIN R1 : R1[q] = R[q]
  BY DEF without
<1>2. \A z \in DOMAIN Z : Z[z].page # p
  BY OKShape, PageStart DEF ZonesOK
<1>3. ASSUME NEW q \in Nat, q # p PROVE q * ps # p * ps
  <2>1. p * ps \in Nat /\ q * ps \in Nat
    BY NatProduct
  <2>2. p * ps < p * ps + ps /\ q * ps < q * ps + ps
    BY <2>1
  <2> QED BY <1>3, <2>1, <2>2, OnOnePage
<1>4. \A z \in DOMAIN Z : Z[z].page \in DOMAIN R1 /\ R1[Z[z].page] = 1
  BY <1>1, <1>2 DEF PageOwners
<1>5. ASSUME NEW q \in DOMAIN R1, \A z \in DOMAIN Z : Z[z].page # q
      PROVE  q * ps \in DOMAIN h /\ h[q * ps] <= R1[q] * ps
  <2>1. q \in DOMAIN R /\ q # p /\ q \in Nat
    BY <1>1
  <2> QED BY <1>1, <1>3, <1>5, <2>1 DEF PageOwners
<1>6. ASSUME NEW a \in DOMAIN h, \A z \in DOMAIN Z : a \notin ChunksIn(Z[z], ps)
      PROVE  \E q \in DOMAIN R1 : a = q * ps
  BY <1>1, <1>6 DEF PageOwners
<1> QED BY <1>4, <1>5, <1>6 DEF PageOwners

-----------------------------------------------------------------------------
(* The steps on the memory that the actions are made of.                   *)

\* The zones, and who has their chunks and the pages.
Memory(Z, L, F, ps, h, X, R) ==
    /\ Consistent(Z, L, F, ps)
    /\ Owners(Z, ps, h, X)
    /\ PageOwners(Z, ps, h, X, R)

LEMMA EmptyMemory ==
    ASSUME NEW ps \in Nat
    PROVE  Memory(Nothing, EmptyLists, NoChunks, ps, Nothing, {}, Nothing)
<1>1. DOMAIN Nothing = {}
  BY DEF Nothing
<1>2. ZonesOK(Nothing, ps)
  BY <1>1, FS_EmptySet DEF ZonesOK
<1>3. ListsOK(Nothing, EmptyLists)
  <2>1. \A idx \in ZoneIdx : ZonesOf(Nothing, idx) = {}
    BY <1>1 DEF ZonesOf
  <2>2. IsInjective(<<>>) /\ Range(<<>>) = {} /\ <<>> \in Seq(ZoneName)
    BY DEF IsInjective, Range
  <2> QED BY <2>1, <2>2 DEF ListsOK, EmptyLists
<1>4. CountsOK(Nothing, NoChunks)
  <2>1. \A idx \in ZoneIdx : FreeOf(Nothing, idx) = {}
    BY <1>1 DEF FreeOf, ZonesOf
  <2> QED BY <2>1, FS_EmptySet DEF CountsOK, NoChunks
<1>5. Owners(Nothing, ps, Nothing, {}) /\ PageOwners(Nothing, ps, Nothing, {}, Nothing)
  BY <1>1 DEF Owners, PageOwners, Names
<1> QED BY <1>2, <1>3, <1>4, <1>5 DEF Memory, Consistent

TakesChunk(Z, F, z, Z1, F1) ==
    LET idx == zoneIdx(Z[z].chunkSize)
    IN  /\ Updated(Z1, Z, z, takeChunk(Z[z]))
        /\ F1 = [F EXCEPT ![idx] = F[idx] - 1]

GivesChunk(Z, F, z, c, Z1, F1) ==
    LET idx == zoneIdx(Z[z].chunkSize)
    IN  /\ Updated(Z1, Z, z, giveChunk(Z[z], c))
        /\ F1 = [F EXCEPT ![idx] = F[idx] + 1]

AddsZone(Z, L, F, R, d, new, Z1, L1, F1, R1) ==
    LET idx == zoneIdx(new.chunkSize)
    IN  /\ Z1 = with(Z, d, new)
        /\ L1 = [L EXCEPT ![idx] = <<d>> \o L[idx]]
        /\ F1 = [F EXCEPT ![idx] = F[idx] + new.freeChunksCount]
        /\ R1 = with(R, new.page, 1)

RemovesZone(Z, L, F, R, z, Z1, L1, F1, R1) ==
    LET idx == zoneIdx(Z[z].chunkSize)
    IN  /\ Z1 = without(Z, z)
        /\ L1 = [L EXCEPT ![idx] = RemoveFirst(L[idx], z)]
        /\ F1 = [F EXCEPT ![idx] = F[idx] - Z[z].freeChunksCount]
        /\ R1 = without(R, Z[z].page)

LEMMA TakeMemory ==
    ASSUME NEW Z, NEW L, NEW F, NEW ps \in Nat, NEW h, NEW R,
           Memory(Z, L, F, ps, h, {}, R),
           NEW z \in DOMAIN Z, Z[z].freeChunksCount > 0,
           NEW c, c = firstChunk(Z[z]), NEW Z1, NEW F1, TakesChunk(Z, F, z, Z1, F1)
    PROVE  Memory(Z1, L, F1, ps, h, {c}, R)
<1>1. /\ Consistent(Z, L, F, ps) /\ ZonesOK(Z, ps)
      /\ Owners(Z, ps, h, {}) /\ PageOwners(Z, ps, h, {}, R)
  BY DEF Memory, Consistent
<1>2. ZoneOK(Z[z], ps)
  BY <1>1 DEF ZonesOK
<1> DEFINE idx == zoneIdx(Z[z].chunkSize)
<1>3. /\ Updated(Z1, Z, z, takeChunk(Z[z]))
      /\ F1 = [F EXCEPT ![idx] = F[idx] - 1]
  BY DEF TakesChunk
<1>4. Consistent(Z1, L, F1, ps)
  BY <1>1, <1>3, TakeStep
<1>5. Owners(Z1, ps, h, {c})
  BY <1>1, <1>3, OwnersTake
<1>6. PICK new : new = takeChunk(Z[z]) OBVIOUS
<1>7. new.page = Z[z].page /\ ChunksIn(new, ps) = ChunksIn(Z[z], ps)
  BY <1>2, <1>6, TakeChunkOK
<1>8. PageOwners(Z1, ps, h, {c}, R)
  BY <1>1, <1>3, <1>6, <1>7, PagesSame, PagesMoreGivenBack
<1> QED BY <1>4, <1>5, <1>8 DEF Memory

LEMMA TakenChunk ==
    ASSUME NEW Z, NEW L, NEW F, NEW ps \in Nat, NEW h, NEW R,
           Memory(Z, L, F, ps, h, {}, R),
           NEW z \in DOMAIN Z, Z[z].freeChunksCount > 0,
           NEW c, c = firstChunk(Z[z]), NEW Z1, NEW F1, TakesChunk(Z, F, z, Z1, F1)
    PROVE  /\ c \in Nat /\ c \in ChunksIn(Z1[z], ps)
           /\ c \notin Names(Z) \cup DOMAIN h
           /\ ~Full(Z1[z]) /\ Z1[z].chunkSize = Z[z].chunkSize
<1>1. ZonesOK(Z, ps) /\ Owners(Z, ps, h, {})
  BY DEF Memory, Consistent
<1>2. ZoneOK(Z[z], ps)
  BY <1>1 DEF ZonesOK
<1>3. Updated(Z1, Z, z, takeChunk(Z[z]))
  BY DEF TakesChunk
<1>4. c \in ChunksIn(Z[z], ps) /\ c \notin Names(Z) \cup DOMAIN h
  BY <1>1, <1>3, OwnersTake
<1>5. PICK new : new = takeChunk(Z[z]) OBVIOUS
<1>6. /\ new.chunkSize = Z[z].chunkSize
      /\ ChunksIn(new, ps) = ChunksIn(Z[z], ps) /\ ~Full(new)
  BY <1>2, <1>5, TakeChunkOK
<1>7. Z1[z] = new
  BY <1>3, <1>5 DEF Updated
<1>8. c \in Nat
  BY <1>2, <1>4, OKShape, ChunkPlace
<1> QED BY <1>4, <1>6, <1>7, <1>8

LEMMA HandOutMemory ==
    ASSUME NEW Z, NEW L, NEW F, NEW ps \in Nat, NEW h, NEW c, NEW R,
           Memory(Z, L, F, ps, h, {c}, R), DOMAIN R \subseteq Nat,
           NEW z \in DOMAIN Z, c \in ChunksIn(Z[z], ps),
           NEW size, chunkSize(size) = Z[z].chunkSize, size <= Z[z].chunkSize,
           NEW h1, h1 = with(h, c, size)
    PROVE  Memory(Z, L, F, ps, h1, {}, R)
<1>1. /\ Consistent(Z, L, F, ps) /\ ZonesOK(Z, ps)
      /\ Owners(Z, ps, h, {c}) /\ PageOwners(Z, ps, h, {c}, R)
  BY DEF Memory, Consistent
<1>2. PageOwners(Z, ps, h, {}, R)
  BY <1>1, PagesOfChunkBack
<1> QED BY <1>1, <1>2, OwnersHandOut, PagesOfChunkOut DEF Memory

LEMMA GiveMemory ==
    ASSUME NEW Z, NEW L, NEW F, NEW ps \in Nat, NEW h, NEW c, NEW R,
           Memory(Z, L, F, ps, h, {c}, R), DOMAIN R \subseteq Nat,
           NEW z \in DOMAIN Z, c \in ChunksIn(Z[z], ps),
           NEW Z1, NEW F1, GivesChunk(Z, F, z, c, Z1, F1)
    PROVE  /\ Memory(Z1, L, F1, ps, h, {}, R)
           /\ c \notin FreeIn(Z[z])
<1>1. /\ Consistent(Z, L, F, ps) /\ ZonesOK(Z, ps)
      /\ Owners(Z, ps, h, {c}) /\ PageOwners(Z, ps, h, {c}, R)
  BY DEF Memory, Consistent
<1>2. PageOwners(Z, ps, h, {}, R)
  BY <1>1, PagesOfChunkBack
<1> DEFINE idx == zoneIdx(Z[z].chunkSize)
<1>3. /\ Updated(Z1, Z, z, giveChunk(Z[z], c))
      /\ F1 = [F EXCEPT ![idx] = F[idx] + 1]
  BY DEF GivesChunk
<1>4. Owners(Z1, ps, h, {}) /\ c \notin FreeIn(Z[z])
  BY <1>1, <1>3, OwnersGive
<1>5. Consistent(Z1, L, F1, ps)
  BY <1>1, <1>4, <1>3, GiveStep
<1>6. PICK new : new = giveChunk(Z[z], c) OBVIOUS
<1>7. ZoneOK(Z[z], ps)
  BY <1>1 DEF ZonesOK
<1>8. new.page = Z[z].page /\ ChunksIn(new, ps) = ChunksIn(Z[z], ps)
  BY <1>4, <1>6, <1>7, GiveChunkOK
<1>9. PageOwners(Z1, ps, h, {}, R)
  BY <1>2, <1>6, <1>8, <1>3, PagesSame
<1> QED BY <1>4, <1>5, <1>9 DEF Memory

LEMMA AddMemory ==
    ASSUME NEW Z, NEW L, NEW F, NEW ps \in Nat, NEW h, NEW d \in Nat, NEW R,
           Memory(Z, L, F, ps, h, {d}, R), DOMAIN R \subseteq Nat,
           InDescZoneOf(Z, ps, d),
           NEW new, ZoneOK(new, ps), FreeIn(new) = ChunksIn(new, ps),
           new.page \notin DOMAIN R,
           NEW Z1, NEW L1, NEW F1, NEW R1, AddsZone(Z, L, F, R, d, new, Z1, L1, F1, R1)
    PROVE  Memory(Z1, L1, F1, ps, h, {}, R1) /\ d \notin DOMAIN Z
<1>1. /\ Consistent(Z, L, F, ps) /\ ZonesOK(Z, ps)
      /\ Owners(Z, ps, h, {d}) /\ PageOwners(Z, ps, h, {d}, R)
  BY DEF Memory, Consistent
<1>2. d # initialZone /\ d \in ZoneName
  BY NamesAssumption DEF ZoneName
<1>3. d \notin DOMAIN Z
  BY <1>1, <1>2 DEF Owners, Names
<1>4. PageOwners(Z, ps, h, {}, R)
  BY <1>1, PagesOfChunkBack DEF InDescZoneOf, ZonesOf
<1>5. /\ ChunksIn(new, ps) \cap DOMAIN h = {}
      /\ \A y \in DOMAIN Z : Z[y].page # new.page
  BY <1>1, <1>4, NothingOnNewPage
<1> DEFINE idx == zoneIdx(new.chunkSize)
<1>6. /\ Z1 = with(Z, d, new)
      /\ L1 = [L EXCEPT ![idx] = <<d>> \o L[idx]]
      /\ F1 = [F EXCEPT ![idx] = F[idx] + new.freeChunksCount]
      /\ R1 = with(R, new.page, 1)
  BY DEF AddsZone
<1>7. Consistent(Z1, L1, F1, ps)
  BY <1>1, <1>2, <1>3, <1>5, <1>6, AddStep
<1>8. Owners(Z1, ps, h, {})
  BY <1>1, <1>2, <1>3, <1>5, <1>6, OwnersAdd
<1>9. PageOwners(Z1, ps, h, {}, R1)
  BY <1>3, <1>4, <1>6, PagesAdd
<1> QED BY <1>3, <1>7, <1>8, <1>9 DEF Memory

LEMMA RemoveMemory ==
    ASSUME NEW Z, NEW L, NEW F, NEW ps \in Nat, NEW h, NEW R,
           Memory(Z, L, F, ps, h, {}, R),
           NEW z \in Names(Z), FreeIn(Z[z]) = ChunksIn(Z[z], ps),
           NEW Z1, NEW L1, NEW F1, NEW R1, RemovesZone(Z, L, F, R, z, Z1, L1, F1, R1)
    PROVE  Memory(Z1, L1, F1, ps, h, {z}, R1) /\ InDescZoneOf(Z1, ps, z)
<1>1. /\ Consistent(Z, L, F, ps) /\ ZonesOK(Z, ps)
      /\ Owners(Z, ps, h, {}) /\ PageOwners(Z, ps, h, {}, R)
  BY DEF Memory, Consistent
<1>2. z \in DOMAIN Z
  BY DEF Names
<1> DEFINE idx == zoneIdx(Z[z].chunkSize)
<1>3. /\ Z1 = without(Z, z)
      /\ L1 = [L EXCEPT ![idx] = RemoveFirst(L[idx], z)]
      /\ F1 = [F EXCEPT ![idx] = F[idx] - Z[z].freeChunksCount]
      /\ R1 = without(R, Z[z].page)
  BY DEF RemovesZone
<1>4. Consistent(Z1, L1, F1, ps)
  BY <1>1, <1>2, <1>3, RemoveStep
<1>5. Owners(Z1, ps, h, {z}) /\ InDescZoneOf(Z1, ps, z)
  BY <1>1, <1>3, OwnersRemove
<1>6. ChunksIn(Z[z], ps) \cap DOMAIN h = {}
  <2>1. ZoneOwned(Z[z], ps, h, UsedBy(Z, h, {}))
    BY <1>1, <1>2 DEF Owners
  <2> QED BY <2>1 DEF ZoneOwned, UsedBy
<1>7. PageOwners(Z1, ps, h, {z}, R1)
  BY <1>1, <1>2, <1>6, <1>3, PagesRemove
<1> QED BY <1>4, <1>5, <1>7 DEF Memory

-----------------------------------------------------------------------------
(* The runs that are allocated.                                            *)

LEMMA FreeRun ==
    ASSUME RunsOK, NEW n \in Nat \ {0}, NEW p \in Pages!FreeRuns(n)
    PROVE  /\ p \in Nat \ {0} /\ p \notin DOMAIN pagesHeld
           /\ Pages!Run(p, n) \subseteq UNION areas
           /\ \A q \in DOMAIN pagesHeld :
                 Pages!Run(p, n) \cap Pages!Run(q, pagesHeld[q]) = {}
<1>1. PICK area \in areas : p \in area /\ Pages!Run(p, n) \subseteq area \ Pages!Taken
  BY DEF Pages!FreeRuns
<1>2. \A q \in DOMAIN pagesHeld : Pages!Run(q, pagesHeld[q]) \subseteq Pages!Taken
  BY DEF Pages!Taken
<1>3. p \in Nat \ {0}
  BY <1>1 DEF RunsOK
<1>4. p \in Pages!Run(p, n)
  BY <1>3 DEF Pages!Run
<1>5. p \notin DOMAIN pagesHeld
  <2>1. SUFFICES ASSUME p \in DOMAIN pagesHeld PROVE FALSE
    OBVIOUS
  <2>2. pagesHeld[p] \in Nat \ {0}
    BY <2>1 DEF RunsOK
  <2>3. p \in Pages!Run(p, pagesHeld[p])
    BY <1>3, <2>2 DEF Pages!Run
  <2> QED BY <1>1, <1>2, <1>4, <2>1, <2>3
<1> QED BY <1>1, <1>2, <1>3, <1>5

LEMMA RunHeld ==
    ASSUME RunsOK, NEW p \in DOMAIN pagesHeld
    PROVE  p \in UNION areas /\ p \in Nat \ {0}
  BY DEF RunsOK

LEMMA RunTaken ==
    ASSUME RunsOK, NEW n \in Nat \ {0}, NEW p \in Pages!FreeRuns(n),
           takeRun(p, n), UNCHANGED areas
    PROVE  RunsOK'
<1>1. PICK R1 : R1 = pagesHeld' OBVIOUS
<1>2. /\ DOMAIN R1 = DOMAIN pagesHeld \cup {p} /\ R1[p] = n
      /\ \A q \in DOMAIN pagesHeld : q # p => R1[q] = pagesHeld[q]
  BY <1>1 DEF takeRun, with
<1>3. /\ p \in Nat \ {0} /\ p \notin DOMAIN pagesHeld
      /\ Pages!Run(p, n) \subseteq UNION areas
      /\ \A q \in DOMAIN pagesHeld :
            Pages!Run(p, n) \cap Pages!Run(q, pagesHeld[q]) = {}
  BY FreeRun
<1>4. p \in UNION areas
  BY <1>3 DEF Pages!FreeRuns
<1>5. \A q \in DOMAIN R1 : R1[q] \in Nat \ {0} /\ Pages!Run(q, R1[q]) \subseteq UNION areas
  BY <1>2, <1>3 DEF RunsOK
<1>6. ASSUME NEW q \in DOMAIN R1, NEW r \in DOMAIN R1, q # r
      PROVE  Pages!Run(q, R1[q]) \cap Pages!Run(r, R1[r]) = {}
  <2>1. CASE q = p
    BY <1>2, <1>3, <1>6, <2>1
  <2>2. CASE r = p
    BY <1>2, <1>3, <1>6, <2>2
  <2>3. CASE q # p /\ r # p
    BY <1>2, <1>6, <2>3 DEF RunsOK
  <2> QED BY <2>1, <2>2, <2>3
<1> QED BY <1>1, <1>2, <1>4, <1>5, <1>6 DEF RunsOK, Pages!Run

LEMMA RunGiven ==
    ASSUME RunsOK, NEW p, giveRun(p), UNCHANGED areas PROVE RunsOK'
<1>1. PICK R1 : R1 = pagesHeld' OBVIOUS
<1>2. /\ DOMAIN R1 = DOMAIN pagesHeld \ {p}
      /\ \A q \in DOMAIN R1 : R1[q] = pagesHeld[q]
  BY <1>1 DEF giveRun, without
<1> QED BY <1>1, <1>2 DEF RunsOK, Pages!Run

-----------------------------------------------------------------------------
(* The state before and after a step.                                      *)

LEMMA PageSizeType ==
    ASSUME StartInv
    PROVE  /\ pageSize \in Nat
           /\ Initialized => pageSize \in Nat \ {0} /\ pageSize \in PageSizes
  BY SizesAssumption DEF StartInv

\* What Inv says, of values.
LEMMA InvMeans ==
    ASSUME Inv
    PROVE  /\ pageSize \in Nat
           /\ Consistent(zones, zoneLists, freeChunks, pageSize)
           /\ ZonesOK(zones, pageSize)
           /\ Owners(zones, pageSize, held, Deallocated)
           /\ PageOwners(zones, pageSize, held, Deallocated, pagesHeld)
           /\ DOMAIN pagesHeld \subseteq Nat
           /\ initialZone \notin Descriptors
           /\ \A idx \in ZoneIdx : freeChunks[idx] \in Nat
<1>1. /\ Consistent(zones, zoneLists, freeChunks, pageSize)
      /\ StartInv /\ OwnersOK /\ PagesOwned /\ RunsOK
  BY DEF Inv
<1>2. ZonesOK(zones, pageSize) /\ CountsOK(zones, freeChunks)
  BY <1>1 DEF Consistent
<1>3. pageSize \in Nat
  BY <1>1, PageSizeType
<1>4. \A idx \in ZoneIdx : freeChunks[idx] \in Nat
  BY <1>2, <1>3, CounterValue
<1>5. initialZone \notin Descriptors
  BY DEF Descriptors
<1> QED BY <1>1, <1>2, <1>3, <1>4, <1>5, OwnersOfState, PagesOwnedOfState, RunHeld

LEMMA MemoryAfter ==
    ASSUME Memory(zones', zoneLists', freeChunks', pageSize', held', Deallocated',
                  pagesHeld')
    PROVE  /\ Consistent(zones, zoneLists, freeChunks, pageSize)'
           /\ OwnersOK' /\ PagesOwned'
<1>1. Owners(zones', pageSize', held', Deallocated') => OwnersOK'
  BY DEF OwnersOK, Owners, Names, UsedBy, ZoneOwned, InDescZoneOf, InDescZone,
         Used, Descriptors, ZonesOf, ChunksIn, FreeIn
<1>2. ASSUME ZonesOK(zones', pageSize'),
             PageOwners(zones', pageSize', held', Deallocated', pagesHeld')
      PROVE  PagesOwned'
  <2>1. InZones' = UNION {ChunksIn(zones'[z], pageSize') : z \in DOMAIN zones'}
    BY DEF InZones, zoneChunks, ChunksIn, pageAddr
  <2>2. \A b : b \notin InZones' <=> \A z \in DOMAIN zones' : b \notin ChunksIn(zones'[z], pageSize')
    BY <2>1
  <2>3. \A z \in DOMAIN zones' : \A y \in DOMAIN zones' \ {z} : zones'[y].page # zones'[z].page
    BY <1>2 DEF ZonesOK
  <2> QED BY <1>2, <2>2, <2>3 DEF PagesOwned, PageOwners, pageAddr
<1>3. ZonesOK(zones', pageSize')
  BY DEF Memory, Consistent
<1> QED BY <1>1, <1>2, <1>3 DEF Memory

LEMMA BackToIdle ==
    ASSUME NoCall, StartInv', RunsOK',
           Memory(zones', zoneLists', freeChunks', pageSize', held', {}, pagesHeld'),
           Initialized' => freeChunks'[zoneDescIdx] >= 1,
           \A z \in Names(zones') : ~Full(zones'[z])
    PROVE  Inv'
<1>1. phase' = "idle" /\ frames' = <<>> /\ chunk' = nullptr /\ argument' = 0
  BY DEF NoCall
<1>2. Deallocated' = {}
  BY <1>1 DEF Deallocated, Deallocating
<1>3. /\ Consistent(zones, zoneLists, freeChunks, pageSize)'
      /\ OwnersOK' /\ PagesOwned'
  BY <1>2, MemoryAfter
<1>4. FullZones'
  BY DEF FullZones, Descriptors, Names, Full
<1>5. IdleInv' /\ CallInv' /\ AllocateInv' /\ DeallocateInv' /\ ReleaseInv'
  BY <1>1 DEF IdleInv, CallInv, AllocateInv, DeallocateInv, ReleaseInv, Idle,
              Deallocating
<1> QED BY <1>1, <1>3, <1>4, <1>5 DEF Inv

-----------------------------------------------------------------------------
(* init and clear.                                                         *)

LEMMA InitInv == Init => Inv
<1> SUFFICES ASSUME Init PROVE Inv
  OBVIOUS
<1> USE DEF Init, InitZones
<1>1. DOMAIN Nothing = {}
  BY DEF Nothing
<1>2. Memory(zones, zoneLists, freeChunks, pageSize, held, {}, pagesHeld)
  BY EmptyMemory
<1>3. Deallocated = {}
  BY DEF Deallocated, Deallocating
<1>4. OwnersOK /\ PagesOwned /\ Consistent(zones, zoneLists, freeChunks, pageSize)
  BY <1>2, <1>3, OwnersOfState, PagesOwnedOfState DEF Memory, Consistent
<1>5. StartInv /\ RunsOK
  BY <1>1 DEF StartInv, Initialized, RunsOK
<1>6. FullZones
  BY <1>1 DEF FullZones, Descriptors
<1>7. IdleInv /\ CallInv /\ AllocateInv /\ DeallocateInv /\ ReleaseInv
  BY <1>1 DEF IdleInv, CallInv, AllocateInv, DeallocateInv, ReleaseInv, Idle,
              Deallocating, Initialized
<1> QED BY <1>4, <1>5, <1>6, <1>7 DEF Inv

LEMMA ClearInv ==
    ASSUME NEW size \in PageSizes \cup {0}, clear(size), NoCall, NoPages
    PROVE  Inv'
<1>1. DOMAIN Nothing = {}
  BY DEF Nothing
<1>2. size \in Nat
  BY SizesAssumption
<1>3. Memory(zones', zoneLists', freeChunks', pageSize', held', {}, pagesHeld')
  BY <1>2, EmptyMemory DEF clear, NoPages
<1>4. StartInv' /\ RunsOK' /\ ~Initialized'
  BY <1>1 DEF StartInv, Initialized, RunsOK, clear, NoPages
<1>5. Names(zones') = {}
  BY <1>1 DEF Names, clear
<1> QED BY <1>3, <1>4, <1>5, BackToIdle

\* A page has at least two chunks for descriptors.
LEMMA DescZoneSize ==
    ASSUME NEW size \in PageSizes
    PROVE  /\ zoneDescChunkSize < size
           /\ size \in Nat \ {0}
           /\ zoneDescChunkSize \in Nat \ {0}
           /\ size \div zoneDescChunkSize \in Nat /\ size \div zoneDescChunkSize >= 2
<1>1. zoneDescChunkSize \in Nat \ {0}
  BY DescChunkSize, ChunkSizesType
<1>2. size \in Nat \ {0}
  BY SizesAssumption
<1>3. 2 * zoneDescChunkSize <= size
  BY ChunksFit
<1>4. 2 <= size \div zoneDescChunkSize
  BY <1>1, <1>2, <1>3, QuotientAtLeast
<1>5. size \div zoneDescChunkSize \in Nat
  BY <1>1, <1>2, Division
<1> QED BY <1>1, <1>2, <1>3, <1>4, <1>5

LEMMA InitSucceedsInv ==
    ASSUME NEW size \in PageSizes, NEW pool \in PoolModels[size], NEW p \in UNION pool,
           InitSucceeds(size, p), areas' = pool, pagesHeld' = [q \in {p} |-> 1]
    PROVE  Inv'
<1> DEFINE new == newZone(p, size, zoneDescChunkSize)
<1>1. DOMAIN Nothing = {}
  BY DEF Nothing
<1>2. /\ zones' = [z \in {initialZone} |-> new]
      /\ zoneLists' = [EmptyLists EXCEPT ![zoneDescIdx] = <<initialZone>>]
      /\ freeChunks' = [NoChunks EXCEPT ![zoneDescIdx] = new.freeChunksCount]
      /\ pageSize' = size /\ held' = Nothing /\ NoCall
  BY DEF InitSucceeds, Returns
<1>3. p \in Nat \ {0} /\ UNION pool \subseteq Nat \ {0}
  BY PoolsAssumption
<1>4. /\ zoneDescChunkSize \in ChunkSizes
      /\ zoneIdx(zoneDescChunkSize) = zoneDescIdx /\ zoneDescIdx \in ZoneIdx
      /\ zoneDescChunkSize < size /\ size \in Nat \ {0}
      /\ size \div zoneDescChunkSize \in Nat /\ size \div zoneDescChunkSize >= 2
  BY DescChunkSize, DescZoneSize
<1>5. /\ new.page = p /\ new.chunkSize = zoneDescChunkSize
      /\ new.freeChunksCount = size \div zoneDescChunkSize
  BY NewZoneFields
<1>6. ZoneOK(new, size) /\ FreeIn(new) = ChunksIn(new, size)
  BY <1>3, <1>4, NewZoneOK
<1> HIDE DEF new
<1>7. /\ zones' = with(Nothing, initialZone, new)
      /\ zoneLists' = [EmptyLists EXCEPT ![zoneDescIdx] =
                          <<initialZone>> \o EmptyLists[zoneDescIdx]]
      /\ freeChunks' = [NoChunks EXCEPT ![zoneDescIdx] =
                           NoChunks[zoneDescIdx] + new.freeChunksCount]
  <2>1. zones' = with(Nothing, initialZone, new)
    BY <1>1, <1>2 DEF with
  <2>2. EmptyLists[zoneDescIdx] = <<>> /\ <<initialZone>> \o <<>> = <<initialZone>>
    BY <1>4 DEF EmptyLists
  <2>3. NoChunks[zoneDescIdx] + new.freeChunksCount = new.freeChunksCount
    BY <1>4, <1>5 DEF NoChunks
  <2> QED BY <1>2, <2>1, <2>2, <2>3
<1>8. Consistent(zones', zoneLists', freeChunks', size)
  <2>1. Consistent(Nothing, EmptyLists, NoChunks, size)
    BY <1>4, EmptyMemory DEF Memory
  <2>2. initialZone \in ZoneName /\ initialZone \notin DOMAIN Nothing
    BY <1>1 DEF ZoneName
  <2>3. \A y \in DOMAIN Nothing : Nothing[y].page # new.page
    BY <1>1
  <2> QED BY <1>4, <1>5, <1>6, <1>7, <2>1, <2>2, <2>3, AddStep
<1>9. DOMAIN zones' = {initialZone} /\ zones'[initialZone] = new /\ Names(zones') = {}
  BY <1>2 DEF Names
<1>10. Owners(zones', size, Nothing, {})
  <2>1. ZoneOwned(new, size, Nothing, UsedBy(zones', Nothing, {}))
    BY <1>1, <1>6, <1>9 DEF ZoneOwned, UsedBy
  <2> QED BY <1>1, <1>9, <2>1 DEF Owners
<1>11. PageOwners(zones', size, Nothing, {}, pagesHeld')
  BY <1>1, <1>5, <1>9 DEF PageOwners
<1>12. Memory(zones', zoneLists', freeChunks', pageSize', held', {}, pagesHeld')
  BY <1>2, <1>8, <1>10, <1>11 DEF Memory
<1>13. StartInv'
  BY <1>1, <1>2, <1>9 DEF StartInv, Initialized
<1>14. RunsOK'
  <2>1. p..(p + 1 - 1) = {p}
    BY <1>3
  <2> QED BY <1>3, <2>1 DEF RunsOK, Pages!Run
<1>15. freeChunks'[zoneDescIdx] >= 1
  BY <1>2, <1>4, <1>5 DEF NoChunks
<1> QED BY <1>2, <1>9, <1>12, <1>13, <1>14, <1>15, BackToIdle

-----------------------------------------------------------------------------
(* allocate without a zone.                                                *)

LEMMA IdleMemory ==
    ASSUME Inv, Idle
    PROVE  /\ Memory(zones, zoneLists, freeChunks, pageSize, held, {}, pagesHeld)
           /\ Initialized => freeChunks[zoneDescIdx] >= 1
           /\ \A z \in Names(zones) : ~Full(zones[z])
<1>1. Deallocated = {}
  BY DEF Idle, Deallocated, Deallocating
<1>2. ~DescZoneAdded
  BY DEF Idle, DescZoneAdded
<1>3. FullZones /\ IdleInv
  BY DEF Inv
<1> QED BY <1>1, <1>2, <1>3, InvMeans DEF Memory, FullZones, Descriptors, Names, IdleInv

LEMMA ReplyInv ==
    ASSUME Inv, Idle, NoCall, UNCHANGED <<pageSize, zoneVars, held>>, UNCHANGED poolVars
    PROVE  Inv'
<1> USE DEF zoneVars, poolVars
<1>1. StartInv' /\ RunsOK'
  BY DEF Inv, StartInv, Initialized, RunsOK, Pages!Run
<1>2. Initialized' => Initialized
  BY DEF Initialized
<1> QED BY <1>1, <1>2, IdleMemory, BackToIdle

\* The size of the pages is enough for the block.
LEMMA PagesForSize ==
    ASSUME NEW size \in Nat \ {0}, pageSize \in Nat \ {0}
    PROVE  /\ pagesFor(size) \in Nat \ {0}
           /\ size <= pagesFor(size) * pageSize
<1>1. PICK ps \in Nat \ {0} : ps = pageSize OBVIOUS
<1>2. PICK n : n = (size + ps - 1) \div ps OBVIOUS
<1>3. size + ps - 1 \in Nat
  BY <1>1
<1>4. n \in Nat /\ size + ps - 1 < (n + 1) * ps
  BY <1>1, <1>2, <1>3, Division
<1>5. (n + 1) * ps = n * ps + ps /\ n * ps \in Nat
  BY <1>4
<1>6. size <= n * ps
  BY <1>3, <1>4, <1>5
<1>7. n # 0
  BY <1>1, <1>6
<1> QED BY <1>1, <1>2, <1>4, <1>6, <1>7 DEF pagesFor

LEMMA AllocateRunInv ==
    ASSUME Inv, NEW size \in AllocSizes, AllocateRun(size)
    PROVE  Inv'
<1>1. Idle /\ UNCHANGED areas
  BY DEF AllocateRun
<1>2. CASE AllocatePages(size, nullptr) /\ UNCHANGED pagesHeld
  BY <1>1, <1>2, ReplyInv DEF AllocatePages, Returns, poolVars
<1>3. ASSUME NEW p \in Pages!FreeRuns(pagesFor(size)), AllocatePages(size, p),
             takeRun(p, pagesFor(size))
      PROVE  Inv'
  <2>1. StartInv /\ RunsOK /\ Initialized /\ size \in Nat \ {0}
    BY <1>3, SizesAssumption DEF Inv, AllocatePages
  <2>2. pageSize \in Nat \ {0} /\ pageSize \in PageSizes
    BY <2>1, PageSizeType
  <2>3. pagesFor(size) \in Nat \ {0} /\ size <= pagesFor(size) * pageSize
    BY <2>1, <2>2, PagesForSize
  <2>4. p \in Nat \ {0} /\ p \notin DOMAIN pagesHeld
    BY <1>3, <2>1, <2>3, FreeRun
  <2>5. p # nullptr
    BY <2>4, NamesAssumption
  <2>6. /\ held' = with(held, p * pageSize, size)
        /\ NoCall /\ UNCHANGED <<pageSize, zoneVars>>
    BY <1>3, <2>5 DEF AllocatePages, Returns, pageAddr
  <2>7. /\ ZonesOK(zones, pageSize) /\ DOMAIN pagesHeld \subseteq Nat
        /\ Consistent(zones, zoneLists, freeChunks, pageSize)
        /\ Owners(zones, pageSize, held, {})
        /\ PageOwners(zones, pageSize, held, {}, pagesHeld)
    BY <1>1, IdleMemory, InvMeans DEF Memory
  <2>8. \A z \in DOMAIN zones :
            /\ p * pageSize \notin ChunksIn(zones[z], pageSize)
            /\ FreeIn(zones[z]) \subseteq ChunksIn(zones[z], pageSize)
    <3>1. \A z \in DOMAIN zones : zones[z].page \in DOMAIN pagesHeld
      BY <2>7 DEF PageOwners
    <3>2. \A z \in DOMAIN zones : p # zones[z].page
      BY <2>4, <3>1
    <3>3. \A z \in DOMAIN zones : p * pageSize \notin ChunksIn(zones[z], pageSize)
      BY <2>2, <2>4, <2>7, <3>2, RunStart
    <3>4. \A z \in DOMAIN zones : FreeIn(zones[z]) \subseteq ChunksIn(zones[z], pageSize)
      BY <2>7 DEF ZonesOK, ZoneOK
    <3> QED BY <3>3, <3>4
  <2>9. Owners(zones, pageSize, held', {})
    BY <2>2, <2>6, <2>7, <2>8, OwnersOutsideOut
  <2>10. PageOwners(zones, pageSize, held', {}, pagesHeld')
    BY <1>3, <2>2, <2>3, <2>4, <2>6, <2>7, PagesTakeRun DEF takeRun
  <2>11. Memory(zones', zoneLists', freeChunks', pageSize', held', {}, pagesHeld')
    BY <2>6, <2>7, <2>9, <2>10 DEF Memory, zoneVars
  <2>12. RunsOK'
    BY <1>1, <1>3, <2>1, <2>3, RunTaken
  <2>13. StartInv'
    <3>1. p * pageSize \in Nat
      BY <2>2, <2>4, NatProduct
    <3> QED BY <2>1, <2>6, <3>1 DEF StartInv, Initialized, zoneVars, with
  <2> QED BY <1>1, <2>1, <2>6, <2>11, <2>12, <2>13, IdleMemory, BackToIdle DEF zoneVars
<1> QED BY <1>2, <1>3 DEF AllocateRun

-----------------------------------------------------------------------------
(* allocate from a zone.                                                   *)

LEMMA ChunkForSize ==
    ASSUME StartInv, Initialized, NEW size \in Nat \ {0}, ~isForPages(size)
    PROVE  /\ chunkSize(size) \in ChunkSizes
           /\ size <= chunkSize(size)
           /\ chunkSize(size) < pageSize
<1>1. pageSize \in Nat \ {0} /\ pageSize \in PageSizes
  BY PageSizeType
<1>2. size < pageSize /\ ~(chunkSize(size) >= pageSize)
  BY <1>1 DEF isForPages
<1>3. 2^(AddrBits - 1) \in Nat
  <2>1. AddrBits \in Nat /\ AddrBits > 4
    BY PowersOfTwo
  <2>2. AddrBits - 1 \in 0..AddrBits
    BY <2>1
  <2> QED BY <2>2, PowersOfTwo
<1>4. pageSize <= 2^(AddrBits - 1)
  BY <1>1, ChunksFit
<1>5. size <= 2^(AddrBits - 1)
  BY <1>1, <1>2, <1>3, <1>4
<1>6. chunkSize(size) \in ChunkSizes /\ size <= chunkSize(size)
  BY <1>5, ChunkSizeOf
<1>7. chunkSize(size) \in Nat
  BY <1>6, ChunkSizesType
<1> QED BY <1>1, <1>2, <1>6, <1>7

LEMMA AllocateChunkInv ==
    ASSUME Inv, NEW size \in AllocSizes, AllocateChunk(size), UNCHANGED poolVars
    PROVE  Inv'
<1> DEFINE idx == zoneIdx(chunkSize(size))
           z == getFreeZone(idx)
<1>1. /\ Idle /\ Initialized /\ size \in Nat \ {0} /\ ~isForPages(size)
      /\ idx \in ZoneIdx /\ ~shouldAllocateZone(idx)
  BY SizesAssumption DEF AllocateChunk, isForZones
<1>2. /\ StartInv /\ RunsOK /\ pageSize \in Nat
      /\ Memory(zones, zoneLists, freeChunks, pageSize, held, {}, pagesHeld)
      /\ freeChunks[zoneDescIdx] >= 1
      /\ \A y \in Names(zones) : ~Full(zones[y])
      /\ Consistent(zones, zoneLists, freeChunks, pageSize)
      /\ ZonesOK(zones, pageSize) /\ ListsOK(zones, zoneLists)
      /\ DOMAIN pagesHeld \subseteq Nat
      /\ \A i \in ZoneIdx : freeChunks[i] \in Nat
  BY <1>1, IdleMemory, InvMeans DEF Inv, Consistent
<1>3. /\ chunkSize(size) \in ChunkSizes /\ size <= chunkSize(size)
  BY <1>1, <1>2, ChunkForSize
<1>4. freeChunks[idx] >= 1 /\ (idx = zoneDescIdx => freeChunks[idx] >= 2)
  BY <1>1, <1>2 DEF shouldAllocateZone
<1>5. z # nullptr
  BY <1>1, <1>2, <1>4, FreeZoneExists
<1>6. z \in ZonesOf(zones, idx) /\ zones[z].freeChunksCount > 0
  BY <1>1, <1>2, <1>5, GetFreeZone
<1>7. z \in DOMAIN zones /\ zoneIdx(zones[z].chunkSize) = idx
  BY <1>6 DEF ZonesOf
<1>8. zones[z].chunkSize = chunkSize(size)
  <2>1. zones[z].chunkSize \in ChunkSizes
    BY <1>2, <1>7 DEF ZonesOK, ZoneOK
  <2> QED BY <1>3, <1>7, <2>1, SameIndex
<1> HIDE DEF idx, z
<1>9. PICK c : c = firstChunk(zones[z]) OBVIOUS
<1>10. /\ zones' = [zones EXCEPT ![z] = takeChunk(zones[z])]
       /\ freeChunks' = [freeChunks EXCEPT ![idx] = freeChunks[idx] - 1]
       /\ held' = with(held, c, size)
       /\ NoCall /\ UNCHANGED <<pageSize, zoneLists>>
  BY <1>5, <1>9 DEF AllocateChunk, Returns, idx, z
<1>11. TakesChunk(zones, freeChunks, z, zones', freeChunks')
  BY <1>7, <1>10, ExceptUpdates DEF TakesChunk
<1>12. /\ Memory(zones', zoneLists, freeChunks', pageSize, held, {c}, pagesHeld)
       /\ c \in Nat /\ c \in ChunksIn(zones'[z], pageSize)
       /\ ~Full(zones'[z]) /\ zones'[z].chunkSize = zones[z].chunkSize
  <2>1. Memory(zones', zoneLists, freeChunks', pageSize, held, {c}, pagesHeld)
    BY <1>2, <1>6, <1>7, <1>9, <1>11, TakeMemory
  <2>2. /\ c \in Nat /\ c \in ChunksIn(zones'[z], pageSize)
        /\ ~Full(zones'[z]) /\ zones'[z].chunkSize = zones[z].chunkSize
    BY <1>2, <1>6, <1>7, <1>9, <1>11, TakenChunk
  <2> QED BY <2>1, <2>2
<1>13. DOMAIN zones' = DOMAIN zones /\ \A y \in DOMAIN zones : y # z => zones'[y] = zones[y]
  BY <1>11 DEF TakesChunk, Updated
<1>14. Memory(zones', zoneLists, freeChunks', pageSize, held', {}, pagesHeld)
  BY <1>2, <1>3, <1>7, <1>8, <1>10, <1>12, <1>13, HandOutMemory
<1>15. StartInv'
  BY <1>1, <1>2, <1>10, <1>12, <1>13 DEF StartInv, Initialized, with
<1>16. RunsOK'
  BY <1>2 DEF RunsOK, Pages!Run, poolVars
<1>17. freeChunks'[zoneDescIdx] >= 1
  <2>1. zoneDescIdx \in ZoneIdx /\ DOMAIN freeChunks = ZoneIdx
    BY <1>2, DescChunkSize DEF Consistent, CountsOK
  <2> QED BY <1>2, <1>4, <1>10, <2>1
<1>18. \A y \in Names(zones') : ~Full(zones'[y])
  BY <1>2, <1>12, <1>13 DEF Names
<1> QED BY <1>10, <1>14, <1>15, <1>16, <1>17, <1>18, BackToIdle DEF poolVars

LEMMA AllocateStartInv ==
    ASSUME Inv, NEW size \in AllocSizes, AllocateStart(size), UNCHANGED poolVars
    PROVE  Inv'
<1>1. /\ Idle /\ Initialized /\ size \in AllocSizes \ {0} /\ ~isForPages(size)
      /\ zoneIdx(chunkSize(size)) \in ZoneIdx
      /\ phase' = "allocate" /\ frames' = <<Frame(chunkSize(size), FALSE)>>
      /\ argument' = size /\ UNCHANGED <<pageSize, zoneVars, chunk, held>>
  BY DEF AllocateStart, isForZones, Frame
<1>2. /\ Memory(zones, zoneLists, freeChunks, pageSize, held, {}, pagesHeld)
      /\ freeChunks[zoneDescIdx] >= 1
      /\ \A y \in Names(zones) : ~Full(zones[y])
      /\ StartInv /\ RunsOK /\ IdleInv
  BY <1>1, IdleMemory DEF Inv
<1>3. Deallocated' = {}
  BY <1>1 DEF Deallocated, Deallocating
<1>4. /\ Consistent(zones, zoneLists, freeChunks, pageSize)'
      /\ OwnersOK' /\ PagesOwned'
  BY <1>1, <1>2, <1>3, MemoryAfter DEF zoneVars, poolVars
<1>5. StartInv' /\ RunsOK'
  BY <1>1, <1>2 DEF StartInv, Initialized, RunsOK, Pages!Run, zoneVars, poolVars
<1>6. ~DescZoneAdded'
  BY <1>1 DEF DescZoneAdded, frame, Frame
<1>7. FullZones'
  BY <1>1, <1>2 DEF FullZones, Descriptors, Names, Full, zoneVars
<1>8. CallInv'
  BY <1>1 DEF CallInv, FramesOK, Initialized, isForPages, zoneVars, Frame
<1>9. AllocateInv'
  BY <1>1, <1>2, <1>6 DEF AllocateInv, IdleInv, zoneVars
<1>10. IdleInv' /\ DeallocateInv' /\ ReleaseInv'
  BY <1>1 DEF IdleInv, Idle, DeallocateInv, Deallocating, ReleaseInv
<1> QED BY <1>1, <1>4, <1>5, <1>7, <1>8, <1>9, <1>10 DEF Inv

LEMMA CheckedFrame ==
    ASSUME NEW f, NEW size, f = Frame(size, FALSE)
    PROVE  [f EXCEPT !.checked = TRUE] = Frame(size, TRUE)
<1>1. PICK g : g = [f EXCEPT !.checked = TRUE] OBVIOUS
<1>2. DOMAIN f = {"chunkSize", "checked"}
  BY DEF Frame
<1>3. DOMAIN g = {"chunkSize", "checked"} /\ g.checked = TRUE
  BY <1>1, <1>2
<1>4. g.chunkSize = size
  BY <1>1, <1>2 DEF Frame
<1>5. g = [x \in {"chunkSize", "checked"} |-> g[x]]
  BY <1>1, <1>3
<1> QED BY <1>1, <1>3, <1>4, <1>5 DEF Frame

LEMMA DescZoneCalled ==
    ASSUME Inv, AllocateDescZone
    PROVE  /\ phase = "allocate" /\ ~DescZoneAdded /\ ~DescZoneAdded'
           /\ frames' = <<Frame(zoneDescChunkSize, FALSE),
                          Frame(chunkSize(argument), TRUE)>>
           /\ chunkSize(argument) # zoneDescChunkSize
           /\ freeChunks[zoneDescIdx] = 1
           /\ UNCHANGED <<pageSize, zones, zoneLists, freeChunks, phase, chunk, argument,
                          held, reply, before>>
<1> DEFINE size == chunkSize(argument)
<1>1. /\ phase = "allocate" /\ ~frame.checked /\ frame.chunkSize # zoneDescChunkSize
      /\ freeChunks[zoneDescIdx] = 1
      /\ frames' = <<[chunkSize |-> zoneDescChunkSize, checked |-> FALSE],
                     [frame EXCEPT !.checked = TRUE]>> \o Tail(frames)
      /\ UNCHANGED <<pageSize, zones, zoneLists, freeChunks, phase, chunk, argument,
                     held, reply, before>>
  BY DEF AllocateDescZone, needsDescZone, shouldAllocateZone, zoneVars
<1>2. FramesOK
  BY <1>1 DEF Inv, CallInv
<1>3. frames = <<Frame(size, FALSE)>>
  BY <1>1, <1>2 DEF FramesOK, Frame, frame
<1>4. frame = Frame(size, FALSE) /\ Tail(frames) = <<>>
  BY <1>3 DEF frame
<1>5. [frame EXCEPT !.checked = TRUE] = Frame(size, TRUE)
  BY <1>4, CheckedFrame
<1>6. \A a, b : <<a, b>> \o <<>> = <<a, b>>
  OBVIOUS
<1>7. frames' = <<Frame(zoneDescChunkSize, FALSE), Frame(size, TRUE)>>
  BY <1>1, <1>4, <1>5, <1>6 DEF Frame
<1>8. size # zoneDescChunkSize
  BY <1>1, <1>4 DEF Frame
<1>9. ~DescZoneAdded /\ ~DescZoneAdded'
  BY <1>3, <1>7 DEF DescZoneAdded, frame, Frame
<1> QED BY <1>1, <1>7, <1>8, <1>9

LEMMA AllocateDescZoneInv ==
    ASSUME Inv, AllocateDescZone, UNCHANGED poolVars
    PROVE  Inv'
<1> DEFINE size == chunkSize(argument)
<1>1. /\ phase = "allocate"
      /\ UNCHANGED <<pageSize, zoneVars, phase, chunk, argument, held>>
  BY DescZoneCalled DEF zoneVars
<1>2. /\ StartInv /\ RunsOK /\ IdleInv /\ CallInv /\ AllocateInv /\ FullZones
      /\ OwnersOK /\ PagesOwned /\ Consistent(zones, zoneLists, freeChunks, pageSize)
  BY DEF Inv
<1>3. /\ Initialized /\ argument \in AllocSizes \ {0}
      /\ ~isForPages(argument) /\ zoneIdx(size) \in ZoneIdx
  BY <1>1, <1>2 DEF CallInv
<1>5. /\ frames' = <<Frame(zoneDescChunkSize, FALSE), Frame(size, TRUE)>>
      /\ size # zoneDescChunkSize
  BY DescZoneCalled
<1>6. ~DescZoneAdded /\ ~DescZoneAdded'
  BY DescZoneCalled
<1>7. Deallocated' = Deallocated
  BY <1>1 DEF Deallocated, Deallocating
<1>8. /\ Consistent(zones, zoneLists, freeChunks, pageSize)' /\ StartInv' /\ RunsOK'
  BY <1>1, <1>2 DEF StartInv, Initialized, RunsOK, Pages!Run, zoneVars, poolVars
<1>9. OwnersOK'
  BY <1>1, <1>2, <1>7 DEF zoneVars, OwnersOK, Descriptors, Used, InDescZone
<1>10. PagesOwned'
  BY <1>1, <1>2, <1>7 DEF zoneVars, poolVars, PagesOwned, pageAddr, InZones, zoneChunks
<1>11. FullZones'
  BY <1>1, <1>2, <1>6 DEF FullZones, Descriptors, Full, zoneVars
<1>12. CallInv'
  BY <1>1, <1>3, <1>5 DEF CallInv, FramesOK, Initialized, isForPages, zoneVars, Frame
<1>13. AllocateInv'
  BY <1>1, <1>2, <1>6 DEF AllocateInv, zoneVars
<1>14. IdleInv' /\ DeallocateInv' /\ ReleaseInv'
  BY <1>1 DEF IdleInv, Idle, DeallocateInv, Deallocating, ReleaseInv
<1> QED BY <1>1, <1>8, <1>9, <1>10, <1>11, <1>12, <1>13, <1>14 DEF Inv

-----------------------------------------------------------------------------
(* allocateZone takes a chunk for the descriptor.                          *)

\* Before allocateZone asks for a page.
LEMMA BeforePage ==
    ASSUME Inv, NeedsPage
    PROVE  /\ StartInv /\ RunsOK /\ CallInv /\ Initialized
           /\ pageSize \in Nat \ {0} /\ pageSize \in PageSizes
           /\ phase = "allocate" /\ chunk = nullptr
           /\ argument \in AllocSizes \ {0} /\ argument \in Nat \ {0}
           /\ FramesOK /\ ~isForPages(argument)
           /\ zoneIdx(chunkSize(argument)) \in ZoneIdx
           /\ freeChunks[zoneDescIdx] >= 1
           /\ DescZoneAdded => freeChunks[zoneDescIdx] >= 2
           /\ Memory(zones, zoneLists, freeChunks, pageSize, held, {}, pagesHeld)
           /\ DOMAIN pagesHeld \subseteq Nat
<1>1. /\ StartInv /\ RunsOK /\ CallInv /\ AllocateInv
  BY DEF Inv
<1>2. phase = "allocate"
  BY DEF NeedsPage
<1>3. Deallocated = {}
  BY <1>2 DEF Deallocated, Deallocating
<1>4. /\ Initialized /\ argument \in AllocSizes \ {0} /\ FramesOK
      /\ ~isForPages(argument) /\ zoneIdx(chunkSize(argument)) \in ZoneIdx
  BY <1>1, <1>2 DEF CallInv
<1>5. /\ chunk = nullptr /\ freeChunks[zoneDescIdx] >= IF DescZoneAdded THEN 2 ELSE 1
  BY <1>1, <1>2 DEF AllocateInv
<1>6. freeChunks[zoneDescIdx] \in Nat
  BY DescChunkSize, InvMeans
<1>7. freeChunks[zoneDescIdx] >= 1 /\ (DescZoneAdded => freeChunks[zoneDescIdx] >= 2)
  BY <1>5, <1>6
<1> QED BY <1>1, <1>2, <1>3, <1>4, <1>5, <1>7, InvMeans, PageSizeType,
           SizesAssumption DEF Memory

LEMMA DescZoneFound ==
    ASSUME Inv, NeedsPage
    PROVE  /\ descZone \in ZonesOf(zones, zoneDescIdx)
           /\ descZone \in DOMAIN zones
           /\ zoneIdx(zones[descZone].chunkSize) = zoneDescIdx
           /\ zones[descZone].freeChunksCount > 0
           /\ \A y \in Names(zones) : Full(zones[y]) => y = descZone
<1>1. pageSize \in Nat /\ ZonesOK(zones, pageSize) /\ ListsOK(zones, zoneLists)
  BY InvMeans DEF Consistent
<1>2. descZone # nullptr /\ zoneDescIdx \in ZoneIdx
  BY DescChunkSize DEF NeedsPage
<1>3. /\ descZone \in ZonesOf(zones, zoneDescIdx)
      /\ zones[descZone].freeChunksCount > 0
      /\ zones[Head(zoneLists[zoneDescIdx])].freeChunksCount > 0 =>
            descZone = Head(zoneLists[zoneDescIdx])
  BY <1>1, <1>2, GetFreeZone DEF descZone
<1>4. ASSUME NEW y \in Names(zones), Full(zones[y]) PROVE y = descZone
  <2>1. y = Head(zoneLists[zoneDescIdx])
    BY <1>4 DEF Inv, FullZones, Descriptors, Names
  <2>2. zones[y].freeChunksCount > 0
    <3>1. zones[y].chunksCount \in Nat \ {0}
      BY <1>1, <1>4 DEF ZonesOK, ZoneOK, ZoneType, Names
    <3> QED BY <1>4, <3>1 DEF Full
  <2> QED BY <1>3, <2>1, <2>2
<1> QED BY <1>3, <1>4 DEF ZonesOf

LEMMA DescTaken ==
    ASSUME Inv, NeedsPage, NEW Z1, NEW F1, TakesChunk(zones, freeChunks, descZone, Z1, F1)
    PROVE  /\ Memory(Z1, zoneLists, F1, pageSize, held, {newDesc}, pagesHeld)
           /\ newDesc \in Nat
           /\ InDescZoneOf(Z1, pageSize, newDesc)
           /\ DOMAIN Z1 = DOMAIN zones
           /\ F1[zoneDescIdx] = freeChunks[zoneDescIdx] - 1
           /\ \A idx \in ZoneIdx : idx # zoneDescIdx => F1[idx] = freeChunks[idx]
           /\ \A y \in Names(Z1) : ~Full(Z1[y])
<1>1. /\ Memory(zones, zoneLists, freeChunks, pageSize, held, {}, pagesHeld)
      /\ pageSize \in Nat
  BY BeforePage
<1>2. /\ descZone \in DOMAIN zones
      /\ zoneIdx(zones[descZone].chunkSize) = zoneDescIdx
      /\ zones[descZone].freeChunksCount > 0
      /\ \A y \in Names(zones) : Full(zones[y]) => y = descZone
  BY DescZoneFound
<1>3. newDesc = firstChunk(zones[descZone])
  BY DEF newDesc
<1>4. Memory(Z1, zoneLists, F1, pageSize, held, {newDesc}, pagesHeld)
  BY <1>1, <1>2, <1>3, TakeMemory
<1>5. /\ newDesc \in Nat /\ newDesc \in ChunksIn(Z1[descZone], pageSize)
      /\ ~Full(Z1[descZone]) /\ Z1[descZone].chunkSize = zones[descZone].chunkSize
  BY <1>1, <1>2, <1>3, TakenChunk
<1>6. /\ DOMAIN Z1 = DOMAIN zones
      /\ \A y \in DOMAIN zones : y # descZone => Z1[y] = zones[y]
  BY DEF TakesChunk, Updated
<1>7. InDescZoneOf(Z1, pageSize, newDesc)
  BY <1>2, <1>5, <1>6 DEF InDescZoneOf, ZonesOf
<1>8. \A y \in Names(Z1) : ~Full(Z1[y])
  BY <1>2, <1>5, <1>6 DEF Names
<1>9. /\ F1[zoneDescIdx] = freeChunks[zoneDescIdx] - 1
      /\ \A idx \in ZoneIdx : idx # zoneDescIdx => F1[idx] = freeChunks[idx]
  <2>1. zoneDescIdx \in ZoneIdx /\ DOMAIN freeChunks = ZoneIdx
    BY <1>1, DescChunkSize DEF Memory, Consistent, CountsOK
  <2> QED BY <1>2, <2>1 DEF TakesChunk
<1> QED BY <1>4, <1>5, <1>6, <1>7, <1>8, <1>9

LEMMA ZoneFailsInv ==
    ASSUME Inv, ZoneFails, UNCHANGED poolVars
    PROVE  Inv'
<1>1. NeedsPage
  BY DEF ZoneFails
<1>2. /\ zones' = [zones EXCEPT ![descZone] = takeChunk(zones[descZone])]
      /\ freeChunks' = [freeChunks EXCEPT ![zoneDescIdx] = freeChunks[zoneDescIdx] - 1]
      /\ phase' = "undo" /\ chunk' = newDesc
      /\ UNCHANGED <<pageSize, zoneLists, frames, argument, held>>
      /\ UNCHANGED <<areas, pagesHeld>>
  BY DEF ZoneFails, poolVars
<1>3. /\ StartInv /\ RunsOK /\ Initialized
      /\ argument \in AllocSizes \ {0} /\ FramesOK /\ ~isForPages(argument)
      /\ zoneIdx(chunkSize(argument)) \in ZoneIdx
  BY <1>1, BeforePage
<1>4. TakesChunk(zones, freeChunks, descZone, zones', freeChunks')
  BY <1>1, <1>2, DescZoneFound, ExceptUpdates DEF TakesChunk
<1>5. /\ Memory(zones', zoneLists, freeChunks', pageSize, held, {newDesc}, pagesHeld)
      /\ newDesc \in Nat
      /\ InDescZoneOf(zones', pageSize, newDesc)
      /\ DOMAIN zones' = DOMAIN zones
      /\ \A y \in Names(zones') : ~Full(zones'[y])
  BY <1>1, <1>4, DescTaken
<1>6. Deallocated' = {newDesc}
  BY <1>2 DEF Deallocated, Deallocating
<1>7. /\ Consistent(zones, zoneLists, freeChunks, pageSize)'
      /\ OwnersOK' /\ PagesOwned'
  <2>1. Memory(zones', zoneLists', freeChunks', pageSize', held', Deallocated', pagesHeld')
    BY <1>2, <1>5, <1>6
  <2> QED BY <2>1, MemoryAfter
<1>8. StartInv' /\ RunsOK'
  BY <1>2, <1>3, <1>5 DEF StartInv, Initialized, RunsOK, Pages!Run
<1>9. FullZones'
  BY <1>5 DEF FullZones, Descriptors, Names, Full
<1>10. CallInv'
  BY <1>2, <1>3, <1>5 DEF CallInv, Initialized, FramesOK, isForPages
<1>11. DeallocateInv'
  <2>1. InDescZoneOf(zones', pageSize', chunk')
    BY <1>2, <1>5
  <2>2. InDescZone(chunk)'
    BY <2>1 DEF InDescZone, InDescZoneOf, ZonesOf, ChunksIn
  <2> QED BY <1>2, <1>3, <1>5, <2>2 DEF DeallocateInv, Initialized
<1>12. IdleInv' /\ AllocateInv' /\ ReleaseInv'
  BY <1>2 DEF IdleInv, Idle, AllocateInv, ReleaseInv
<1> QED BY <1>2, <1>7, <1>8, <1>9, <1>10, <1>11, <1>12 DEF Inv

-----------------------------------------------------------------------------
(* allocateZone gets its page.                                             *)

LEMMA FrameSize ==
    ASSUME Inv, NeedsPage
    PROVE  /\ frame.chunkSize \in ChunkSizes /\ frame.chunkSize < pageSize
           /\ zoneIdx(frame.chunkSize) \in ZoneIdx
           /\ \/ /\ Len(frames) = 1
                 /\ frame.chunkSize = chunkSize(argument)
                 /\ argument <= frame.chunkSize
                 /\ \/ frame.chunkSize = zoneDescChunkSize
                    \/ freeChunks[zoneDescIdx] >= 2
              \/ /\ Len(frames) = 2
                 /\ frame.chunkSize = zoneDescChunkSize
                 /\ Tail(frames) = <<Frame(chunkSize(argument), TRUE)>>
                 /\ chunkSize(argument) # zoneDescChunkSize
<1> DEFINE size == chunkSize(argument)
<1>1. /\ StartInv /\ Initialized /\ argument \in Nat \ {0} /\ ~isForPages(argument)
      /\ zoneIdx(size) \in ZoneIdx /\ FramesOK
      /\ pageSize \in PageSizes /\ phase = "allocate"
      /\ freeChunks[zoneDescIdx] >= 1
      /\ DescZoneAdded => freeChunks[zoneDescIdx] >= 2
  BY BeforePage
<1>2. size \in ChunkSizes /\ argument <= size /\ size < pageSize
  BY <1>1, ChunkForSize
<1>3. /\ zoneDescChunkSize \in ChunkSizes /\ zoneDescChunkSize < pageSize
      /\ zoneIdx(zoneDescChunkSize) \in ZoneIdx
  BY <1>1, DescChunkSize, DescZoneSize
<1>4. freeChunks[zoneDescIdx] \in Nat
  BY DescChunkSize, InvMeans
<1>5. ~needsDescZone
  BY DEF NeedsPage
<1> HIDE DEF size
<1>6. CASE frames = <<Frame(size, FALSE)>>
  <2>1. Len(frames) = 1 /\ frame.chunkSize = size /\ frame.checked = FALSE
    BY <1>6 DEF frame, Frame
  <2>2. size = zoneDescChunkSize \/ freeChunks[zoneDescIdx] >= 2
    BY <1>1, <1>4, <1>5, <2>1 DEF needsDescZone, shouldAllocateZone
  <2> QED BY <1>1, <1>2, <2>1, <2>2 DEF size
<1>7. CASE frames = <<Frame(size, TRUE)>>
  <2>1. Len(frames) = 1 /\ frame.chunkSize = size /\ frame.checked = TRUE /\ frames # <<>>
    BY <1>7 DEF frame, Frame
  <2>2. freeChunks[zoneDescIdx] >= 2
    BY <1>1, <2>1 DEF DescZoneAdded
  <2> QED BY <1>1, <1>2, <2>1, <2>2 DEF size
<1>8. CASE /\ frames = <<Frame(zoneDescChunkSize, FALSE), Frame(size, TRUE)>>
           /\ size # zoneDescChunkSize
  <2>1. /\ Len(frames) = 2 /\ frame.chunkSize = zoneDescChunkSize
        /\ Tail(frames) = <<Frame(size, TRUE)>>
    <3>1. \A a, b : Len(<<a, b>>) = 2 /\ Head(<<a, b>>) = a /\ Tail(<<a, b>>) = <<b>>
      OBVIOUS
    <3>2. frame = Frame(zoneDescChunkSize, FALSE)
      BY <1>8, <3>1 DEF frame
    <3> QED BY <1>8, <3>1, <3>2 DEF Frame
  <2> QED BY <1>3, <1>8, <2>1 DEF size
<1> QED BY <1>1, <1>6, <1>7, <1>8 DEF FramesOK, size

\* The zone on page p is added: Z1 and F1 are the zones and the counters with
\* the descriptor taken.
LEMMA ZoneAdded ==
    ASSUME Inv, NeedsPage, NEW p \in Pages!FreeRuns(1),
           NEW Z1, NEW F1, TakesChunk(zones, freeChunks, descZone, Z1, F1),
           NEW new, new = newZone(p, pageSize, frame.chunkSize),
           NEW Z2, NEW L2, NEW F2, NEW R2,
           AddsZone(Z1, zoneLists, F1, pagesHeld, newDesc, new, Z2, L2, F2, R2)
    PROVE  /\ Memory(Z2, L2, F2, pageSize, held, {}, R2)
           /\ DOMAIN R2 \subseteq Nat
           /\ newDesc \notin DOMAIN zones /\ newDesc \in Nat
           /\ DOMAIN Z2 = DOMAIN zones \cup {newDesc} /\ Z2[newDesc] = new
           /\ \A y \in Names(Z2) : y # newDesc => ~Full(Z2[y])
           /\ new.chunkSize = frame.chunkSize
           /\ new.freeChunksCount \in Nat \ {0}
           /\ new.chunkSize = zoneDescChunkSize => new.freeChunksCount >= 2
<1> DEFINE size == frame.chunkSize
<1>1. /\ pageSize \in Nat \ {0} /\ pageSize \in PageSizes /\ RunsOK
      /\ DOMAIN pagesHeld \subseteq Nat
  BY BeforePage
<1>2. size \in ChunkSizes /\ size < pageSize /\ zoneIdx(size) \in ZoneIdx
  BY FrameSize
<1>3. p \in Nat \ {0} /\ p \notin DOMAIN pagesHeld
  BY <1>1, FreeRun
<1>4. /\ new.page = p /\ new.chunkSize = size
      /\ new.freeChunksCount = pageSize \div size
  BY NewZoneFields
<1>5. ZoneOK(new, pageSize) /\ FreeIn(new) = ChunksIn(new, pageSize)
  BY <1>1, <1>2, <1>3, NewZoneOK
<1>6. /\ Memory(Z1, zoneLists, F1, pageSize, held, {newDesc}, pagesHeld)
      /\ newDesc \in Nat /\ InDescZoneOf(Z1, pageSize, newDesc)
      /\ DOMAIN Z1 = DOMAIN zones
      /\ \A y \in Names(Z1) : ~Full(Z1[y])
  BY DescTaken
<1> HIDE DEF size
<1>7. new.page \notin DOMAIN pagesHeld
  BY <1>3, <1>4
<1>8. Memory(Z2, L2, F2, pageSize, held, {}, R2) /\ newDesc \notin DOMAIN Z1
  BY <1>1, <1>5, <1>6, <1>7, AddMemory
<1>9. /\ DOMAIN Z2 = DOMAIN Z1 \cup {newDesc} /\ Z2[newDesc] = new
      /\ \A y \in DOMAIN Z1 : Z2[y] = Z1[y]
      /\ DOMAIN R2 = DOMAIN pagesHeld \cup {p}
  BY <1>4, <1>8 DEF AddsZone, with
<1>10. \A y \in Names(Z2) : y # newDesc => ~Full(Z2[y])
  BY <1>6, <1>9 DEF Names
<1>11. new.freeChunksCount \in Nat \ {0}
  <2>1. new.chunksCount \in Nat \ {0} /\ Full(new)
    BY <1>5, NewZoneFields DEF ZoneOK, ZoneType
  <2> QED BY <2>1 DEF Full
<1>12. size = zoneDescChunkSize => new.freeChunksCount >= 2
  BY <1>1, <1>4, DescZoneSize
<1> QED BY <1>1, <1>3, <1>4, <1>6, <1>8, <1>9, <1>10, <1>11, <1>12 DEF size

\* Adding the zone keeps the other parts of Inv.
LEMMA ZoneAddedRest ==
    ASSUME Inv, NeedsPage, NEW p \in Pages!FreeRuns(1), AddZone(p), takeRun(p, 1),
           UNCHANGED areas, newDesc \in Nat,
           DOMAIN zones' = DOMAIN zones \cup {newDesc}
    PROVE  RunsOK' /\ Initialized' /\ pageSize' \in PageSizes
<1>1. RunsOK /\ Initialized /\ pageSize \in PageSizes
  BY BeforePage
<1>2. RunsOK'
  BY <1>1, RunTaken
<1> QED BY <1>1, <1>2 DEF AddZone, Initialized

LEMMA AddDescZoneInv ==
    ASSUME Inv, NEW p \in Pages!FreeRuns(1), AddZone(p), takeRun(p, 1),
           UNCHANGED areas, Len(frames) # 1
    PROVE  Inv'
<1> DEFINE size == chunkSize(argument)
<1>1. NeedsPage
  BY DEF AddZone
<1>2. /\ frame.chunkSize = zoneDescChunkSize /\ Tail(frames) = <<Frame(size, TRUE)>>
      /\ size # zoneDescChunkSize
  BY <1>1, FrameSize
<1>3. /\ zoneDescIdx \in ZoneIdx /\ zoneIdx(frame.chunkSize) = zoneDescIdx
  BY <1>2, DescChunkSize
<1>4. PICK d, new : d = newDesc /\ new = newZone(p, pageSize, frame.chunkSize)
  OBVIOUS
<1>5. PICK Z1, F1 :
          /\ Z1 = [zones EXCEPT ![descZone] = takeChunk(zones[descZone])]
          /\ F1 = [freeChunks EXCEPT ![zoneDescIdx] = freeChunks[zoneDescIdx] - 1]
  OBVIOUS
<1>6. /\ zones' = with(Z1, d, new)
      /\ zoneLists' = [zoneLists EXCEPT ![zoneDescIdx] = <<d>> \o zoneLists[zoneDescIdx]]
      /\ freeChunks' = [F1 EXCEPT ![zoneDescIdx] = F1[zoneDescIdx] + new.freeChunksCount]
      /\ frames' = Tail(frames)
      /\ UNCHANGED <<pageSize, phase, chunk, argument, held>>
  BY <1>3, <1>4, <1>5 DEF AddZone
<1>7. TakesChunk(zones, freeChunks, descZone, Z1, F1)
  BY <1>1, <1>5, DescZoneFound, ExceptUpdates DEF TakesChunk
<1>8. new.page = p /\ zoneIdx(new.chunkSize) = zoneDescIdx
  BY <1>3, <1>4, NewZoneFields
<1>9. AddsZone(Z1, zoneLists, F1, pagesHeld, d, new,
               zones', zoneLists', freeChunks', pagesHeld')
  BY <1>6, <1>8 DEF AddsZone, takeRun
<1>10. /\ Memory(zones', zoneLists', freeChunks', pageSize, held, {}, pagesHeld')
       /\ d \in Nat /\ DOMAIN zones' = DOMAIN zones \cup {d}
       /\ \A y \in Names(zones') : y # d => ~Full(zones'[y])
       /\ new.freeChunksCount \in Nat \ {0} /\ new.freeChunksCount >= 2
  <2>1. AddsZone(Z1, zoneLists, F1, pagesHeld, newDesc, new,
                 zones', zoneLists', freeChunks', pagesHeld')
    BY <1>4, <1>9
  <2>2. Memory(zones', zoneLists', freeChunks', pageSize, held, {}, pagesHeld')
    BY <1>1, <1>4, <1>7, <2>1, ZoneAdded
  <2>3. newDesc \in Nat /\ DOMAIN zones' = DOMAIN zones \cup {newDesc}
    BY <1>1, <1>4, <1>7, <2>1, ZoneAdded
  <2>4. \A y \in Names(zones') : y # newDesc => ~Full(zones'[y])
    BY <1>1, <1>4, <1>7, <2>1, ZoneAdded
  <2>5. new.freeChunksCount \in Nat \ {0} /\ new.freeChunksCount >= 2
    BY <1>1, <1>2, <1>4, <1>7, <2>1, ZoneAdded
  <2> QED BY <1>4, <2>2, <2>3, <2>4, <2>5
<1>11. /\ StartInv /\ phase = "allocate" /\ chunk = nullptr
       /\ argument \in AllocSizes \ {0} /\ ~isForPages(argument)
       /\ zoneIdx(size) \in ZoneIdx
       /\ freeChunks[zoneDescIdx] >= 1
  BY <1>1, BeforePage
<1>12. RunsOK' /\ Initialized' /\ pageSize' \in PageSizes
  BY <1>1, <1>4, <1>10, ZoneAddedRest
<1>13. Deallocated' = {}
  BY <1>6, <1>11 DEF Deallocated, Deallocating
<1>14. /\ Consistent(zones, zoneLists, freeChunks, pageSize)'
       /\ OwnersOK' /\ PagesOwned'
  BY <1>6, <1>10, <1>13, MemoryAfter
<1>15. StartInv'
  BY <1>6, <1>11, <1>12 DEF StartInv
<1>16. frames' = <<Frame(size, TRUE)>>
  BY <1>2, <1>6
<1>17. DescZoneAdded'
  <2>1. frame' = Frame(size, TRUE) /\ frames' # <<>>
    BY <1>16 DEF frame
  <2>2. frame'.checked = TRUE
    BY <2>1 DEF Frame
  <2> QED BY <1>6, <1>11, <2>1, <2>2 DEF DescZoneAdded
<1>18. d = Head(zoneLists'[zoneDescIdx])
  <2>1. zoneLists \in [ZoneIdx -> Seq(ZoneName)]
    BY InvMeans DEF Consistent, ListsOK
  <2>2. zoneLists'[zoneDescIdx] = <<d>> \o zoneLists[zoneDescIdx]
    BY <1>3, <1>6, <2>1
  <2>3. zoneLists[zoneDescIdx] \in Seq(ZoneName) /\ d \in ZoneName
    BY <1>3, <1>10, <2>1 DEF ZoneName
  <2> QED BY <2>2, <2>3, ConsFacts
<1>19. FullZones'
  BY <1>10, <1>17, <1>18 DEF FullZones, Descriptors, Names, Full
<1>20. CallInv'
  BY <1>2, <1>6, <1>11, <1>12, <1>16 DEF CallInv, FramesOK, isForPages
<1>21. AllocateInv'
  <2>1. freeChunks[zoneDescIdx] \in Nat /\ DOMAIN freeChunks = ZoneIdx
    BY <1>3, InvMeans DEF Consistent, CountsOK
  <2>2. freeChunks'[zoneDescIdx] = freeChunks[zoneDescIdx] - 1 + new.freeChunksCount
    BY <1>3, <1>5, <1>6, <2>1
  <2>3. freeChunks'[zoneDescIdx] >= 2
    BY <1>10, <1>11, <2>1, <2>2
  <2> QED BY <1>6, <1>11, <1>17, <2>3 DEF AllocateInv
<1>22. IdleInv' /\ DeallocateInv' /\ ReleaseInv'
  BY <1>6, <1>11 DEF IdleInv, Idle, DeallocateInv, Deallocating, ReleaseInv
<1> QED BY <1>6, <1>11, <1>12, <1>14, <1>15, <1>19, <1>20, <1>21, <1>22 DEF Inv

LEMMA AddLastZoneInv ==
    ASSUME Inv, NEW p \in Pages!FreeRuns(1), AddZone(p), takeRun(p, 1),
           UNCHANGED areas, Len(frames) = 1
    PROVE  Inv'
<1>1. NeedsPage
  BY DEF AddZone
<1>2. PICK d, size : d = newDesc /\ size = frame.chunkSize
  OBVIOUS
<1>3. PICK idx, new : idx = zoneIdx(size) /\ new = newZone(p, pageSize, size)
  OBVIOUS
<1>4. /\ size \in ChunkSizes /\ size < pageSize /\ idx \in ZoneIdx
      /\ size = chunkSize(argument) /\ argument <= size
      /\ size = zoneDescChunkSize \/ freeChunks[zoneDescIdx] >= 2
  BY <1>1, <1>2, <1>3, FrameSize
<1>5. PICK Z1, F1 :
          /\ Z1 = [zones EXCEPT ![descZone] = takeChunk(zones[descZone])]
          /\ F1 = [freeChunks EXCEPT ![zoneDescIdx] = freeChunks[zoneDescIdx] - 1]
  OBVIOUS
<1>6. PICK c, n : c = firstChunk(new) /\ n = new.freeChunksCount
  OBVIOUS
<1>7. /\ new.page = p /\ new.chunkSize = size /\ new.freeChunksCount = n
      /\ takeChunk(new).freeChunksCount = n - 1
  BY <1>3, <1>6, NewZoneFields DEF takeChunk, newZone
<1>8. /\ zones' = with(Z1, d, takeChunk(new))
      /\ zoneLists' = [zoneLists EXCEPT ![idx] = <<d>> \o zoneLists[idx]]
      /\ freeChunks' = [F1 EXCEPT ![idx] = F1[idx] + (n - 1)]
      /\ held' = with(held, c, argument)
      /\ NoCall /\ UNCHANGED pageSize
  BY <1>2, <1>3, <1>5, <1>6, <1>7 DEF AddZone, Returns
<1>9. PICK Z2, F2 :
          /\ Z2 = with(Z1, d, new)
          /\ F2 = [F1 EXCEPT ![idx] = F1[idx] + n]
  OBVIOUS
<1>10. TakesChunk(zones, freeChunks, descZone, Z1, F1)
  BY <1>1, <1>5, DescZoneFound, ExceptUpdates DEF TakesChunk
<1>11. AddsZone(Z1, zoneLists, F1, pagesHeld, newDesc, new, Z2, zoneLists', F2, pagesHeld')
  BY <1>2, <1>3, <1>7, <1>8, <1>9 DEF AddsZone, takeRun
<1>12. /\ Memory(Z2, zoneLists', F2, pageSize, held, {}, pagesHeld')
       /\ DOMAIN pagesHeld' \subseteq Nat
       /\ d \in Nat /\ DOMAIN Z2 = DOMAIN zones \cup {d} /\ Z2[d] = new
       /\ \A y \in Names(Z2) : y # d => ~Full(Z2[y])
       /\ n \in Nat \ {0} /\ (size = zoneDescChunkSize => n >= 2)
  <2>1. Memory(Z2, zoneLists', F2, pageSize, held, {}, pagesHeld')
    BY <1>1, <1>2, <1>3, <1>10, <1>11, ZoneAdded
  <2>2. DOMAIN pagesHeld' \subseteq Nat /\ newDesc \in Nat
    BY <1>1, <1>2, <1>3, <1>10, <1>11, ZoneAdded
  <2>3. DOMAIN Z2 = DOMAIN zones \cup {newDesc} /\ Z2[newDesc] = new
    BY <1>1, <1>2, <1>3, <1>10, <1>11, ZoneAdded
  <2>4. \A y \in Names(Z2) : y # newDesc => ~Full(Z2[y])
    BY <1>1, <1>2, <1>3, <1>10, <1>11, ZoneAdded
  <2>5. /\ new.freeChunksCount \in Nat \ {0}
        /\ new.chunkSize = zoneDescChunkSize => new.freeChunksCount >= 2
    BY <1>1, <1>2, <1>3, <1>10, <1>11, ZoneAdded
  <2> QED BY <1>2, <1>7, <2>1, <2>2, <2>3, <2>4, <2>5
<1>13. /\ StartInv /\ argument \in AllocSizes \ {0} /\ argument \in Nat
       /\ freeChunks[zoneDescIdx] >= 1 /\ pageSize \in Nat
  BY <1>1, BeforePage
<1>14. /\ DOMAIN Z1 = DOMAIN zones
       /\ F1[zoneDescIdx] = freeChunks[zoneDescIdx] - 1
       /\ \A i \in ZoneIdx : i # zoneDescIdx => F1[i] = freeChunks[i]
       /\ DOMAIN F1 = ZoneIdx
  <2>1. /\ DOMAIN Z1 = DOMAIN zones
        /\ F1[zoneDescIdx] = freeChunks[zoneDescIdx] - 1
        /\ \A i \in ZoneIdx : i # zoneDescIdx => F1[i] = freeChunks[i]
    BY <1>1, <1>10, DescTaken
  <2>2. DOMAIN freeChunks = ZoneIdx
    BY InvMeans DEF Consistent, CountsOK
  <2> QED BY <1>5, <2>1, <2>2
<1>15. /\ \A i \in ZoneIdx : freeChunks[i] \in Nat
       /\ zoneDescIdx \in ZoneIdx /\ zoneIdx(zoneDescChunkSize) = zoneDescIdx
       /\ zoneDescChunkSize \in ChunkSizes
  BY InvMeans, DescChunkSize
<1>16. F1[idx] \in Int
  BY <1>4, <1>14, <1>15
<1>17. TakesChunk(Z2, F2, d, zones', freeChunks')
  <2>1. Updated(zones', Z2, d, takeChunk(new))
    BY <1>8, <1>9 DEF Updated, with
  <2>2. freeChunks' = [F2 EXCEPT ![idx] = F2[idx] - 1]
    <3>1. F1[idx] + (n - 1) = (F1[idx] + n) - 1
      BY <1>12, <1>16
    <3>2. F2[idx] = F1[idx] + n
      BY <1>4, <1>9, <1>14
    <3> QED BY <1>4, <1>8, <1>9, <1>14, <3>1, <3>2
  <2>3. Z2[d] = new /\ idx = zoneIdx(new.chunkSize)
    BY <1>3, <1>7, <1>12
  <2> QED BY <2>1, <2>2, <2>3 DEF TakesChunk
<1>18. d \in DOMAIN Z2 /\ Z2[d].freeChunksCount > 0 /\ c = firstChunk(Z2[d])
  BY <1>6, <1>12
<1>19. Memory(zones', zoneLists', freeChunks', pageSize, held, {c}, pagesHeld')
  BY <1>12, <1>13, <1>17, <1>18, TakeMemory
<1>20. c \in Nat /\ c \in ChunksIn(zones'[d], pageSize)
  BY <1>12, <1>13, <1>17, <1>18, TakenChunk
<1>21. ~Full(zones'[d])
  BY <1>12, <1>13, <1>17, <1>18, TakenChunk
<1>22. zones'[d].chunkSize = size
  BY <1>7, <1>12, <1>13, <1>17, <1>18, TakenChunk
<1>23. /\ DOMAIN zones' = DOMAIN zones \cup {d}
       /\ \A y \in DOMAIN zones' : y # d => zones'[y] = Z2[y]
  BY <1>12, <1>17 DEF TakesChunk, Updated
<1>24. Memory(zones', zoneLists', freeChunks', pageSize, held', {}, pagesHeld')
  <2>1. d \in DOMAIN zones'
    BY <1>23
  <2>2. chunkSize(argument) = zones'[d].chunkSize /\ argument <= zones'[d].chunkSize
    BY <1>4, <1>22
  <2> QED BY <1>8, <1>12, <1>13, <1>19, <1>20, <2>1, <2>2, HandOutMemory
<1>25. RunsOK' /\ Initialized' /\ pageSize' \in PageSizes
  BY <1>1, <1>2, <1>12, <1>23, ZoneAddedRest
<1>26. StartInv'
  BY <1>8, <1>13, <1>20, <1>25 DEF StartInv, with
<1>27. freeChunks'[zoneDescIdx] >= 1
  <2>1. CASE size = zoneDescChunkSize
    <3>1. idx = zoneDescIdx
      BY <1>3, <1>15, <2>1
    <3>2. freeChunks'[zoneDescIdx] = freeChunks[zoneDescIdx] - 1 + (n - 1)
      BY <1>4, <1>8, <1>14, <3>1
    <3> QED BY <1>12, <1>13, <1>15, <2>1, <3>2
  <2>2. CASE size # zoneDescChunkSize
    <3>1. idx # zoneDescIdx
      BY <1>3, <1>4, <1>15, <2>2, SameIndex
    <3>2. freeChunks'[zoneDescIdx] = freeChunks[zoneDescIdx] - 1
      BY <1>4, <1>8, <1>14, <1>15, <3>1
    <3> QED BY <1>4, <1>15, <2>2, <3>2
  <2> QED BY <2>1, <2>2
<1>28. \A y \in Names(zones') : ~Full(zones'[y])
  BY <1>12, <1>21, <1>23 DEF Names
<1> QED BY <1>8, <1>24, <1>25, <1>26, <1>27, <1>28, BackToIdle

-----------------------------------------------------------------------------
(* release and deallocateChunk.                                            *)

LEMMA ReleaseStartInv ==
    ASSUME Inv, NEW addr \in DOMAIN held, Release(addr), UNCHANGED poolVars
    PROVE  Inv'
<1>1. /\ Idle /\ phase' = "release" /\ chunk' = addr /\ argument' = addr
      /\ held' = without(held, addr)
      /\ UNCHANGED <<pageSize, zones, zoneLists, freeChunks, frames>>
      /\ UNCHANGED <<areas, pagesHeld>>
  BY DEF Release, zoneVars, poolVars
<1>2. /\ Memory(zones, zoneLists, freeChunks, pageSize, held, {}, pagesHeld)
      /\ Initialized => freeChunks[zoneDescIdx] >= 1
      /\ \A z \in Names(zones) : ~Full(zones[z])
      /\ StartInv /\ RunsOK /\ IdleInv /\ pageSize \in Nat
  BY <1>1, IdleMemory, InvMeans DEF Inv
<1>3. Initialized /\ addr \in Nat /\ frames = <<>>
  BY <1>1, <1>2 DEF StartInv, IdleInv
<1>4. Deallocated' = {addr}
  BY <1>1 DEF Deallocated, Deallocating
<1>5. Memory(zones', zoneLists', freeChunks', pageSize', held', Deallocated', pagesHeld')
  BY <1>1, <1>2, <1>4, OwnersTakeBack, PagesTakeBack DEF Memory
<1>6. /\ Consistent(zones, zoneLists, freeChunks, pageSize)'
      /\ OwnersOK' /\ PagesOwned'
  BY <1>5, MemoryAfter
<1>7. StartInv' /\ RunsOK'
  BY <1>1, <1>2, <1>3 DEF StartInv, Initialized, RunsOK, Pages!Run, without
<1>8. FullZones'
  BY <1>1, <1>2 DEF FullZones, Descriptors, Names, Full
<1>9. DeallocateInv'
  <2>1. \/ \E z \in DOMAIN zones : addr \in ChunksIn(zones[z], pageSize)
        \/ \E p \in DOMAIN pagesHeld : addr = pageAddr(p)
    BY <1>2 DEF Memory, PageOwners, pageAddr
  <2>2. \/ \E z \in DOMAIN zones' : chunk' \in ChunksIn(zones'[z], pageSize')
        \/ \E p \in DOMAIN pagesHeld' : chunk' = pageAddr(p)'
    BY <1>1, <2>1 DEF pageAddr
  <2> QED BY <1>1, <1>2, <1>3, <2>2 DEF DeallocateInv, Initialized, ChunksIn, pageAddr
<1>10. IdleInv' /\ CallInv' /\ AllocateInv' /\ ReleaseInv'
  BY <1>1, <1>3 DEF IdleInv, Idle, CallInv, AllocateInv, ReleaseInv
<1> QED BY <1>1, <1>6, <1>7, <1>8, <1>9, <1>10 DEF Inv

\* While a chunk is given back.
LEMMA WhileDeallocating ==
    ASSUME Inv, Deallocating
    PROVE  /\ Memory(zones, zoneLists, freeChunks, pageSize, held, {chunk}, pagesHeld)
           /\ StartInv /\ RunsOK /\ DeallocateInv /\ Initialized
           /\ pageSize \in Nat \ {0} /\ ZonesOK(zones, pageSize)
           /\ DOMAIN pagesHeld \subseteq Nat
           /\ chunk \in Nat
           /\ \A z \in Names(zones) : ~Full(zones[z])
           /\ \/ InDescZone(chunk)
              \/ phase = "release" /\ chunk = argument /\ freeChunks[zoneDescIdx] >= 1
<1>1. Deallocated = {chunk} /\ ~DescZoneAdded
  BY DEF Deallocated, Deallocating, DescZoneAdded
<1>2. StartInv /\ RunsOK /\ DeallocateInv /\ FullZones
  BY DEF Inv
<1>3. \A z \in Names(zones) : ~Full(zones[z])
  BY <1>1, <1>2 DEF FullZones, Names, Descriptors
<1>4. Memory(zones, zoneLists, freeChunks, pageSize, held, {chunk}, pagesHeld)
  BY <1>1, InvMeans DEF Memory
<1>5. /\ Initialized /\ chunk \in Nat
      /\ \/ InDescZone(chunk)
         \/ phase = "release" /\ chunk = argument /\ freeChunks[zoneDescIdx] >= 1
  BY <1>2 DEF DeallocateInv
<1> QED BY <1>2, <1>3, <1>4, <1>5, InvMeans, PageSizeType

\* The chunk has a zone: z, which has it back in Z1.
LEMMA GivenBack ==
    ASSUME NEW z \in DOMAIN zones, NEW F1,
           F1 = [freeChunks EXCEPT ![zoneIdx(zones[z].chunkSize)] =
                    freeChunks[zoneIdx(zones[z].chunkSize)] + 1]
    PROVE  GivesChunk(zones, freeChunks, z, chunk, givenBack(z), F1)
  BY ExceptUpdates DEF GivesChunk, givenBack

LEMMA ChunkGiven ==
    ASSUME Inv, Deallocating, NEW z, z = findZone(chunk), z # nullptr,
           NEW Z1, NEW F1, GivesChunk(zones, freeChunks, z, chunk, Z1, F1)
    PROVE  /\ z \in DOMAIN zones
           /\ Memory(Z1, zoneLists, F1, pageSize, held, {}, pagesHeld)
           /\ DOMAIN Z1 = DOMAIN zones
           /\ \A y \in DOMAIN zones : y # z => Z1[y] = zones[y]
           /\ Z1[z].chunksCount = zones[z].chunksCount
           /\ Z1[z].chunkSize = zones[z].chunkSize
           /\ Z1[z].page = zones[z].page
<1>1. /\ Memory(zones, zoneLists, freeChunks, pageSize, held, {chunk}, pagesHeld)
      /\ pageSize \in Nat /\ ZonesOK(zones, pageSize) /\ DOMAIN pagesHeld \subseteq Nat
  BY WhileDeallocating
<1>2. z \in DOMAIN zones /\ chunk \in ChunksIn(zones[z], pageSize)
  BY <1>1, FindZone
<1>3. Memory(Z1, zoneLists, F1, pageSize, held, {}, pagesHeld) /\ chunk \notin FreeIn(zones[z])
  BY <1>1, <1>2, GiveMemory
<1>4. ZoneOK(zones[z], pageSize)
  BY <1>1, <1>2 DEF ZonesOK
<1>5. PICK new : new = giveChunk(zones[z], chunk) OBVIOUS
<1>6. /\ new.chunksCount = zones[z].chunksCount
      /\ new.chunkSize = zones[z].chunkSize /\ new.page = zones[z].page
  BY <1>1, <1>2, <1>3, <1>4, <1>5, GiveChunkOK
<1>7. /\ DOMAIN Z1 = DOMAIN zones /\ Z1[z] = new
      /\ \A y \in DOMAIN zones : y # z => Z1[y] = zones[y]
  BY <1>5 DEF GivesChunk, Updated
<1> QED BY <1>2, <1>3, <1>6, <1>7

LEMMA GiveChunkInv ==
    ASSUME Inv, GiveChunk, UNCHANGED poolVars
    PROVE  Inv'
<1>1. PICK z : z = findZone(chunk) OBVIOUS
<1>2. /\ Deallocating /\ z # nullptr /\ ~isEmptied(z)
      /\ zones' = givenBack(z)
      /\ freeChunks' = [freeChunks EXCEPT ![zoneIdx(zones[z].chunkSize)] =
                           freeChunks[zoneIdx(zones[z].chunkSize)] + 1]
      /\ DeallocateReturns
      /\ UNCHANGED <<pageSize, zoneLists, held>> /\ UNCHANGED <<areas, pagesHeld>>
  BY <1>1 DEF GiveChunk, poolVars
<1>3. NoCall
  BY <1>2 DEF DeallocateReturns, Returns
<1>4. /\ z \in DOMAIN zones
      /\ Memory(zones', zoneLists, freeChunks', pageSize, held, {}, pagesHeld)
      /\ DOMAIN zones' = DOMAIN zones
      /\ \A y \in DOMAIN zones : y # z => zones'[y] = zones[y]
      /\ zones'[z].chunksCount = zones[z].chunksCount
  <2>1. z \in DOMAIN zones
    BY <1>1, <1>2, WhileDeallocating, FindZone
  <2>2. GivesChunk(zones, freeChunks, z, chunk, zones', freeChunks')
    BY <1>2, <2>1, GivenBack
  <2> QED BY <1>1, <1>2, <2>2, ChunkGiven
<1>5. /\ StartInv /\ RunsOK /\ Initialized /\ pageSize \in Nat /\ ZonesOK(zones, pageSize)
      /\ \A y \in Names(zones) : ~Full(zones[y])
      /\ InDescZone(chunk) \/ freeChunks[zoneDescIdx] >= 1
  BY <1>2, WhileDeallocating
<1>6. StartInv' /\ RunsOK'
  BY <1>2, <1>4, <1>5 DEF StartInv, Initialized, RunsOK, Pages!Run
<1>7. \A y \in Names(zones') : ~Full(zones'[y])
  <2>1. z # initialZone => zones'[z].freeChunksCount # zones[z].chunksCount
    BY <1>2 DEF isEmptied
  <2> QED BY <1>4, <1>5, <2>1 DEF Names, Full
<1>8. freeChunks'[zoneDescIdx] >= 1
  <2>1. /\ zoneDescIdx \in ZoneIdx /\ DOMAIN freeChunks = ZoneIdx
        /\ freeChunks[zoneDescIdx] \in Nat
    BY DescChunkSize, InvMeans DEF Consistent, CountsOK
  <2>2. CASE zoneIdx(zones[z].chunkSize) = zoneDescIdx
    BY <1>2, <2>1, <2>2
  <2>3. CASE zoneIdx(zones[z].chunkSize) # zoneDescIdx
    <3>1. ~InDescZone(chunk)
      BY <1>1, <1>5, <2>3, FindZone DEF InDescZone, ZonesOf
    <3> QED BY <1>2, <1>5, <2>1, <2>3, <3>1
  <2> QED BY <2>2, <2>3
<1> QED BY <1>2, <1>3, <1>4, <1>6, <1>7, <1>8, BackToIdle

LEMMA RemoveZoneInv ==
    ASSUME Inv, RemoveZone, giveRun(zones[findZone(chunk)].page), UNCHANGED areas
    PROVE  Inv'
<1>1. PICK z, idx : z = findZone(chunk) /\ idx = zoneIdx(zones[z].chunkSize) OBVIOUS
<1>2. PICK Z1, F1 :
          /\ Z1 = givenBack(z)
          /\ F1 = [freeChunks EXCEPT ![idx] = freeChunks[idx] + 1]
  OBVIOUS
<1>3. /\ Deallocating /\ z # nullptr
      /\ Z1[z].freeChunksCount = zones[z].chunksCount /\ z # initialZone
      /\ zones' = without(zones, z)
      /\ zoneLists' = [zoneLists EXCEPT ![idx] = RemoveFirst(zoneLists[idx], z)]
      /\ freeChunks' = [freeChunks EXCEPT ![idx] =
                           freeChunks[idx] + 1 - Z1[z].freeChunksCount]
      /\ chunk' = z /\ pagesHeld' = without(pagesHeld, zones[z].page)
      /\ UNCHANGED <<pageSize, phase, frames, argument, held, areas>>
  BY <1>1, <1>2 DEF RemoveZone, EmptiesZone, isEmptied, giveRun
<1>4. /\ z \in DOMAIN zones
      /\ Memory(Z1, zoneLists, F1, pageSize, held, {}, pagesHeld)
      /\ DOMAIN Z1 = DOMAIN zones
      /\ \A y \in DOMAIN zones : y # z => Z1[y] = zones[y]
      /\ Z1[z].chunksCount = zones[z].chunksCount
      /\ Z1[z].chunkSize = zones[z].chunkSize
      /\ Z1[z].page = zones[z].page
  <2>1. z \in DOMAIN zones
    BY <1>1, <1>3, WhileDeallocating, FindZone
  <2>2. GivesChunk(zones, freeChunks, z, chunk, Z1, F1)
    BY <1>1, <1>2, <2>1, GivenBack
  <2> QED BY <1>1, <1>3, <2>2, ChunkGiven
<1>5. /\ StartInv /\ RunsOK /\ Initialized /\ pageSize \in Nat /\ ZonesOK(zones, pageSize)
      /\ \A y \in Names(zones) : ~Full(zones[y])
  BY <1>3, WhileDeallocating
<1>6. z \in Names(Z1) /\ FreeIn(Z1[z]) = ChunksIn(Z1[z], pageSize)
  <2>1. Full(Z1[z])
    BY <1>3, <1>4 DEF Full
  <2>2. ZoneOK(Z1[z], pageSize)
    BY <1>4 DEF Memory, Consistent, ZonesOK
  <2> QED BY <1>3, <1>4, <1>5, <2>1, <2>2, FreeCounted DEF Names
<1>7. RemovesZone(Z1, zoneLists, F1, pagesHeld, z,
                  zones', zoneLists', freeChunks', pagesHeld')
  <2>1. zones' = without(Z1, z)
    BY <1>3, <1>4 DEF without
  <2>2. freeChunks' = [F1 EXCEPT ![idx] = F1[idx] - Z1[z].freeChunksCount]
    <3>1. idx \in ZoneIdx
      BY <1>1, <1>4, <1>5 DEF ZonesOK, ZoneOK
    <3>2. DOMAIN freeChunks = ZoneIdx
      BY InvMeans DEF Consistent, CountsOK
    <3>3. F1[idx] = freeChunks[idx] + 1 /\ DOMAIN F1 = ZoneIdx
      BY <1>2, <3>1, <3>2
    <3>4. PICK v : v = freeChunks[idx] + 1 - Z1[z].freeChunksCount OBVIOUS
    <3>5. F1[idx] - Z1[z].freeChunksCount = v
      <4>1. freeChunks[idx] \in Nat
        BY <3>1, InvMeans
      <4>2. Z1[z].freeChunksCount \in Nat
        BY <1>4 DEF Memory, Consistent, ZonesOK, ZoneOK, ZoneType
      <4> QED BY <3>3, <3>4, <4>1, <4>2
    <3>6. [F1 EXCEPT ![idx] = v] = [freeChunks EXCEPT ![idx] = v]
      BY <1>2
    <3> QED BY <1>3, <3>4, <3>5, <3>6
  <2>3. idx = zoneIdx(Z1[z].chunkSize)
    BY <1>1, <1>4
  <2> QED BY <1>3, <1>4, <2>1, <2>2, <2>3 DEF RemovesZone
<1>8. Memory(zones', zoneLists', freeChunks', pageSize, held, {z}, pagesHeld')
  BY <1>4, <1>5, <1>6, <1>7, RemoveMemory
<1>9. InDescZoneOf(zones', pageSize, z)
  BY <1>4, <1>5, <1>6, <1>7, RemoveMemory
<1>10. Deallocated' = {z}
  BY <1>3 DEF Deallocated, Deallocating
<1>11. /\ Consistent(zones, zoneLists, freeChunks, pageSize)'
       /\ OwnersOK' /\ PagesOwned'
  BY <1>3, <1>8, <1>10, MemoryAfter
<1>12. RunsOK'
  BY <1>1, <1>3, <1>5, RunGiven
<1>13. DOMAIN zones' = DOMAIN zones \ {z} /\ \A y \in DOMAIN zones' : zones'[y] = zones[y]
  BY <1>3 DEF without
<1>14. Initialized' /\ StartInv'
  BY <1>3, <1>5, <1>13 DEF StartInv, Initialized
<1>15. FullZones'
  BY <1>5, <1>13 DEF FullZones, Descriptors, Names, Full
<1>16. CallInv'
  BY <1>3, <1>14 DEF Inv, CallInv, FramesOK, isForPages
<1>17. DeallocateInv'
  <2>1. z \in Nat
    BY <1>3, <1>4, <1>5 DEF ZonesOK, ZoneName
  <2>2. InDescZoneOf(zones', pageSize', chunk')
    BY <1>3, <1>9
  <2>3. InDescZone(chunk)'
    BY <2>2 DEF InDescZone, InDescZoneOf, ZonesOf, ChunksIn
  <2> QED BY <1>3, <1>14, <2>1, <2>3 DEF DeallocateInv
<1>18. ReleaseInv'
  BY <1>3 DEF Inv, ReleaseInv
<1>19. phase' \in {"undo", "release"}
  BY <1>3 DEF Deallocating
<1>20. IdleInv' /\ AllocateInv'
  BY <1>19 DEF IdleInv, Idle, AllocateInv
<1> QED BY <1>11, <1>12, <1>14, <1>15, <1>16, <1>17, <1>18, <1>19, <1>20 DEF Inv

LEMMA NotInZonesInv ==
    ASSUME Inv, NotInZones, ReleaseRun
    PROVE  Inv'
<1>1. /\ Deallocating /\ findZone(chunk) = nullptr /\ NoCall
      /\ UNCHANGED <<pageSize, zones, zoneLists, freeChunks, held>>
      /\ UNCHANGED areas
  BY DEF NotInZones, ReleaseRun, DeallocateReturns, Returns, zoneVars
<1>2. /\ Memory(zones, zoneLists, freeChunks, pageSize, held, {chunk}, pagesHeld)
      /\ StartInv /\ RunsOK /\ DeallocateInv /\ Initialized
      /\ pageSize \in Nat \ {0} /\ ZonesOK(zones, pageSize)
      /\ DOMAIN pagesHeld \subseteq Nat
      /\ \A z \in Names(zones) : ~Full(zones[z])
  BY <1>1, WhileDeallocating
<1>3. \A z \in DOMAIN zones : chunk \notin ChunksIn(zones[z], pageSize)
  BY <1>1, <1>2, FindZone
<1>4. ~InDescZone(chunk)
  BY <1>3 DEF InDescZone, ZonesOf
<1>5. /\ phase = "release" /\ chunk = argument /\ freeChunks[zoneDescIdx] >= 1
      /\ \E p \in DOMAIN pagesHeld : chunk = pageAddr(p)
  BY <1>1, <1>2, <1>3, <1>4 DEF DeallocateInv
<1>6. PICK p \in DOMAIN pagesHeld : chunk = p * pageSize
  BY <1>5 DEF pageAddr
<1>7. p \in UNION areas /\ p \in Nat \ {0}
  BY <1>2, RunHeld
<1>8. chunk \div pageSize = p
  <2>1. PICK ps \in Nat \ {0} : ps = pageSize
    BY <1>2
  <2>2. chunk \in Nat /\ chunk = p * ps
    BY <1>6, <1>7, <2>1, NatProduct
  <2>3. PICK q : q = chunk \div ps OBVIOUS
  <2>4. q \in Nat /\ q * ps <= chunk /\ chunk < (q + 1) * ps
    BY <2>1, <2>2, <2>3, Division
  <2>5. chunk < q * ps + ps
    BY <2>1, <2>4
  <2>6. p * ps <= chunk /\ chunk < p * ps + ps
    BY <2>1, <2>2
  <2>7. p = q
    BY <1>7, <2>1, <2>2, <2>4, <2>5, <2>6, OnOnePage
  <2> QED BY <2>1, <2>3, <2>7
<1>9. getPage(argument) = p /\ p # nullptr
  BY <1>5, <1>7, <1>8, NamesAssumption DEF getPage
<1>10. pagesHeld' = without(pagesHeld, p) /\ giveRun(p)
  BY <1>5, <1>9 DEF ReleaseRun, giveRun
<1>11. RunsOK'
  BY <1>1, <1>2, <1>10, RunGiven
<1>12. /\ Owners(zones, pageSize, held, {chunk})
       /\ PageOwners(zones, pageSize, held, {chunk}, pagesHeld)
       /\ Consistent(zones, zoneLists, freeChunks, pageSize)
  BY <1>2 DEF Memory
<1>13. Owners(zones, pageSize, held, {})
  BY <1>2, <1>3, <1>12, OwnersOutsideBack
<1>14. PageOwners(zones, pageSize, held, {}, pagesHeld')
  <2>1. chunk \notin DOMAIN held
    BY <1>12 DEF Owners
  <2> QED BY <1>2, <1>3, <1>6, <1>7, <1>10, <1>12, <2>1, PagesGiveRun
<1>15. Memory(zones', zoneLists', freeChunks', pageSize', held', {}, pagesHeld')
  BY <1>1, <1>12, <1>13, <1>14 DEF Memory
<1>16. StartInv'
  BY <1>1, <1>2 DEF StartInv, Initialized
<1> QED BY <1>1, <1>2, <1>5, <1>11, <1>15, <1>16, BackToIdle

-----------------------------------------------------------------------------
(* Every step.                                                             *)

LEMMA CallKeepsInv == Inv /\ Call => Inv'
<1> SUFFICES ASSUME Inv, Call PROVE Inv'
  OBVIOUS
<1>1. CASE (Clear \/ InitRejected) /\ NoPages
  BY <1>1, ClearInv DEF Clear, InitRejected, Returns
<1>2. ASSUME NEW size \in PageSizes, InitPool(size) PROVE Inv'
  <2>2. CASE InitFails(size) /\ NoPages
    BY <2>2, ClearInv DEF InitFails, Returns
  <2>3. ASSUME NEW pool \in PoolModels[size], NEW p \in UNION pool,
               InitSucceeds(size, p), areas' = pool, pagesHeld' = [q \in {p} |-> 1]
        PROVE  Inv'
    BY <2>3, InitSucceedsInv
  <2> QED BY <1>2, <2>2, <2>3 DEF InitPool
<1>3. ASSUME NEW size \in AllocSizes, AllocateRun(size) PROVE Inv'
  BY <1>3, AllocateRunInv
<1>4. ASSUME NEW size \in AllocSizes, AllocateNothing(size) \/ AllocateThrows(size),
             UNCHANGED poolVars
      PROVE  Inv'
  BY <1>4, ReplyInv DEF AllocateNothing, AllocateThrows, Returns
<1>5. ASSUME NEW size \in AllocSizes, AllocateChunk(size), UNCHANGED poolVars
      PROVE  Inv'
  BY <1>5, AllocateChunkInv
<1>6. ASSUME NEW size \in AllocSizes, AllocateStart(size), UNCHANGED poolVars
      PROVE  Inv'
  BY <1>6, AllocateStartInv
<1>7. ASSUME NEW addr \in DOMAIN held, Release(addr), UNCHANGED poolVars PROVE Inv'
  BY <1>7, ReleaseStartInv
<1>8. CASE ReleaseNull /\ UNCHANGED poolVars
  BY <1>8, ReplyInv DEF ReleaseNull, Returns
<1> QED BY <1>1, <1>2, <1>3, <1>4, <1>5, <1>6, <1>7, <1>8 DEF Call

LEMMA StepKeepsInv == Inv /\ Step => Inv'
<1> SUFFICES ASSUME Inv, Step PROVE Inv'
  OBVIOUS
<1>1. CASE AllocateDescZone /\ UNCHANGED poolVars
  BY <1>1, AllocateDescZoneInv
<1>2. CASE AllocateZone
  <2>1. CASE ZoneFails /\ UNCHANGED pagesHeld
    BY <1>2, <2>1, ZoneFailsInv DEF AllocateZone, poolVars
  <2>2. ASSUME NEW p \in Pages!FreeRuns(1), AddZone(p), takeRun(p, 1) PROVE Inv'
    BY <1>2, <2>2, AddDescZoneInv, AddLastZoneInv DEF AllocateZone
  <2> QED BY <1>2, <2>1, <2>2 DEF AllocateZone
<1>3. CASE GiveChunk /\ UNCHANGED poolVars
  BY <1>3, GiveChunkInv
<1>4. CASE RemoveZone /\ giveRun(zones[findZone(chunk)].page) /\ UNCHANGED areas
  BY <1>4, RemoveZoneInv
<1>5. CASE NotInZones /\ ReleaseRun
  BY <1>5, NotInZonesInv
<1> QED BY <1>1, <1>2, <1>3, <1>4, <1>5 DEF Step

LEMMA StutterKeepsInv == Inv /\ UNCHANGED vars => Inv'
<1> SUFFICES ASSUME Inv, UNCHANGED vars PROVE Inv'
  OBVIOUS
<1> USE DEF vars, zoneVars, callVars
<1>1. UNCHANGED <<InZones, Deallocated, Descriptors, DescZoneAdded>>
  BY DEF InZones, zoneChunks, pageAddr, Deallocated, Deallocating, Descriptors,
         DescZoneAdded, frame
<1>2. Consistent(zones, zoneLists, freeChunks, pageSize)'
  BY DEF Inv
<1>3. StartInv' /\ RunsOK'
  BY DEF Inv, StartInv, Initialized, RunsOK, Pages!Run
<1>4. OwnersOK'
  BY <1>1 DEF Inv, OwnersOK, InDescZone, Used
<1>5. PagesOwned'
  BY <1>1 DEF Inv, PagesOwned, pageAddr
<1>6. FullZones' /\ AllocateInv'
  BY <1>1 DEF Inv, FullZones, AllocateInv
<1>7. IdleInv' /\ CallInv' /\ ReleaseInv'
  BY DEF Inv, IdleInv, Idle, Initialized, CallInv, FramesOK, isForPages, ReleaseInv
<1>8. DeallocateInv'
  BY DEF Inv, DeallocateInv, Deallocating, Initialized, InDescZone, pageAddr
<1> QED BY <1>2, <1>3, <1>4, <1>5, <1>6, <1>7, <1>8 DEF Inv

\* The invariant holds for every page size, every memory and every client.
THEOREM InvCorrect == Spec => []Inv
<1>1. Init => Inv
  BY InitInv
<1>2. Inv /\ [Next]_vars => Inv'
  BY CallKeepsInv, StepKeepsInv, StutterKeepsInv DEF Next
<1> QED BY <1>1, <1>2, PTL DEF Spec

-----------------------------------------------------------------------------
(* What follows from the invariant.                                        *)

LEMMA FramesType ==
    ASSUME Inv PROVE frames \in Seq([chunkSize : Nat, checked : BOOLEAN])
<1> DEFINE T == [chunkSize : Nat, checked : BOOLEAN]
           size == chunkSize(argument)
<1>1. <<>> \in Seq(T) /\ \A a, b \in T : <<a>> \in Seq(T) /\ <<a, b>> \in Seq(T)
  OBVIOUS
<1>2. CASE phase \in {"allocate", "undo"}
  <2>1. FramesOK /\ StartInv /\ Initialized /\ argument \in Nat \ {0} /\ ~isForPages(argument)
    BY <1>2, SizesAssumption DEF Inv, CallInv
  <2>2. size \in Nat /\ zoneDescChunkSize \in Nat
    BY <2>1, ChunkForSize, ChunkSizesType, DescChunkSize
  <2>3. /\ Frame(size, FALSE) \in T /\ Frame(size, TRUE) \in T
        /\ Frame(zoneDescChunkSize, FALSE) \in T
    BY <2>2 DEF Frame
  <2>4. \/ frames = <<Frame(size, FALSE)>>
        \/ frames = <<Frame(size, TRUE)>>
        \/ frames = <<Frame(zoneDescChunkSize, FALSE), Frame(size, TRUE)>>
    BY <2>1 DEF FramesOK
  <2> HIDE DEF T, size
  <2>5. frames \in Seq(T)
    BY <1>1, <2>3, <2>4
  <2> QED BY <2>5 DEF T
<1>3. CASE phase \in {"idle", "release"}
  <2>1. frames = <<>>
    BY <1>3 DEF Inv, IdleInv, Idle, ReleaseInv
  <2> QED BY <1>1, <2>1
<1> QED BY <1>2, <1>3 DEF Inv

LEMMA InvType == Inv => TypeOK
<1> SUFFICES ASSUME Inv PROVE TypeOK
  OBVIOUS
<1>1. /\ StartInv /\ RunsOK /\ IdleInv /\ CallInv /\ AllocateInv /\ DeallocateInv
      /\ ReleaseInv /\ phase \in {"idle", "allocate", "undo", "release"}
      /\ ZonesOK(zones, pageSize) /\ ListsOK(zones, zoneLists)
  BY DEF Inv, Consistent
<1>2. zoneLists \in [ZoneIdx -> Seq(DOMAIN zones)]
  <2>1. ASSUME NEW idx \in ZoneIdx PROVE zoneLists[idx] \in Seq(DOMAIN zones)
    <3>1. zoneLists[idx] \in Seq(ZoneName) /\ Range(zoneLists[idx]) \subseteq DOMAIN zones
      BY <1>1 DEF ListsOK, ZonesOf
    <3>2. PICK l : l = zoneLists[idx] OBVIOUS
    <3>3. \A k \in 1..Len(l) : l[k] \in DOMAIN zones
      BY <3>1, <3>2 DEF Range
    <3>4. l \in Seq(DOMAIN zones)
      BY <3>1, <3>2, <3>3
    <3> QED BY <3>2, <3>4
  <2> QED BY <1>1, <2>1 DEF ListsOK
<1>3. freeChunks \in [ZoneIdx -> Nat]
  BY InvMeans DEF Consistent, CountsOK
<1>4. chunk \in Nat \cup {nullptr} /\ argument \in Nat
  <2>1. CASE phase = "idle"
    BY <1>1, <2>1 DEF IdleInv, Idle
  <2>2. CASE phase = "allocate"
    BY <1>1, <2>2, SizesAssumption DEF AllocateInv, CallInv
  <2>3. CASE phase = "undo"
    BY <1>1, <2>3, SizesAssumption DEF DeallocateInv, Deallocating, CallInv
  <2>4. CASE phase = "release"
    BY <1>1, <2>4 DEF DeallocateInv, Deallocating, ReleaseInv
  <2> QED BY <1>1, <2>1, <2>2, <2>3, <2>4
<1>5. DOMAIN zones \subseteq Nat \cup {initialZone} /\ \A z \in DOMAIN zones : zones[z] \in ZoneType
  BY <1>1 DEF ZonesOK, ZoneOK, ZoneName
<1> QED BY <1>1, <1>2, <1>3, <1>4, <1>5, FramesType DEF TypeOK, StartInv, RunsOK

\* Every variable of the zone allocator and of the page pool has its type.
THEOREM TypeCorrect == Spec => []TypeOK
  BY InvCorrect, InvType, PTL

\* The pages of the page allocator that are taken are the zones' and the
\* clients'.
THEOREM PagesOwnedCorrect == Spec => []PagesOwned
<1>1. Inv => PagesOwned
  BY DEF Inv
<1> QED BY <1>1, InvCorrect, PTL

\* One of four sets has c: the tags keep equal sets apart.
LEMMA OneOwner ==
    ASSUME NEW c, NEW A, NEW B, NEW C, NEW D,
           c \in A \cup B \cup C \cup D,
           c \in A => c \notin B \cup C \cup D,
           c \in B => c \notin C \cup D,
           c \in C => c \notin D
    PROVE  Cardinality({S \in {<<1, A>>, <<2, B>>, <<3, C>>, <<4, D>>} : c \in S[2]}) = 1
<1> DEFINE owners == {S \in {<<1, A>>, <<2, B>>, <<3, C>>, <<4, D>>} : c \in S[2]}
<1>1. CASE c \in A
  <2>1. owners = {<<1, A>>}
    BY <1>1
  <2> QED BY <2>1, FS_Singleton
<1>2. CASE c \in B
  <2>1. owners = {<<2, B>>}
    BY <1>2
  <2> QED BY <2>1, FS_Singleton
<1>3. CASE c \in C
  <2>1. owners = {<<3, C>>}
    BY <1>3
  <2> QED BY <2>1, FS_Singleton
<1>4. CASE c \in D
  <2>1. owners = {<<4, D>>}
    BY <1>4
  <2> QED BY <2>1, FS_Singleton
<1> QED BY <1>1, <1>2, <1>3, <1>4

LEMMA InvChunks == Inv => ChunksOwned
<1> SUFFICES ASSUME Inv PROVE ChunksOwned
  OBVIOUS
<1>1. OwnersOK /\ ZonesOK(zones, pageSize)
  BY DEF Inv, Consistent
<1>2. \A z : zoneChunks(z) = ChunksIn(zones[z], pageSize)
  BY DEF zoneChunks, ChunksIn, pageAddr
<1>3. Descriptors \subseteq InZones
  BY <1>1, <1>2 DEF OwnersOK, InDescZone, ZonesOf, InZones
<1>4. ASSUME NEW z \in DOMAIN zones
      PROVE  /\ IsInjective(zones[z].freeChunks)
             /\ Range(zones[z].freeChunks) \subseteq zoneChunks(z)
  BY <1>1, <1>2 DEF ZonesOK, ZoneOK, FreeIn
<1>5. ASSUME NEW z \in DOMAIN zones, NEW c \in zoneChunks(z)
      PROVE  /\ Cardinality({S \in {<<1, Range(zones[z].freeChunks)>>, <<2, Descriptors>>,
                                     <<3, DOMAIN held>>, <<4, Deallocated>>} :
                                c \in S[2]}) = 1
             /\ c \in DOMAIN held => chunkSize(held[c]) = zones[z].chunkSize
  <2> DEFINE free == Range(zones[z].freeChunks)
  <2>1. free \cap (Descriptors \cup DOMAIN held \cup Deallocated) = {}
    BY <1>1 DEF OwnersOK, Used, FreeIn
  <2>2. c \in free \cup (Descriptors \cup DOMAIN held \cup Deallocated)
    BY <1>1, <1>2, <1>5 DEF OwnersOK, Used, FreeIn
  <2>3. /\ Descriptors \cap DOMAIN held = {}
        /\ Deallocated \cap (Descriptors \cup DOMAIN held) = {}
    BY <1>1 DEF OwnersOK
  <2>4. c \in DOMAIN held => chunkSize(held[c]) = zones[z].chunkSize
    BY <1>1, <1>2, <1>5 DEF OwnersOK
  <2> QED BY <2>1, <2>2, <2>3, <2>4, OneOwner
<1> QED BY <1>3, <1>4, <1>5 DEF ChunksOwned

\* A chunk has one owner: two zones, a zone and a client, or the free list
\* and a client never share one.
THEOREM ChunksOwnedCorrect == Spec => []ChunksOwned
  BY InvCorrect, InvChunks, PTL

LEMMA InvCounters == Inv => CountersAgree
<1> SUFFICES ASSUME Inv PROVE CountersAgree
  OBVIOUS
<1>1. /\ ZonesOK(zones, pageSize) /\ ListsOK(zones, zoneLists)
      /\ CountsOK(zones, freeChunks)
  BY DEF Inv, Consistent
<1>2. \A z \in DOMAIN zones : zones[z].freeChunksCount = Len(zones[z].freeChunks)
  BY <1>1 DEF ZonesOK, ZoneOK
<1>3. ASSUME NEW idx \in ZoneIdx
      PROVE  /\ IsInjective(zoneLists[idx])
             /\ Range(zoneLists[idx]) =
                   {z \in DOMAIN zones : zoneIdx(zones[z].chunkSize) = idx}
             /\ freeChunks[idx] =
                   Cardinality(UNION {Range(zones[z].freeChunks) :
                                         z \in Range(zoneLists[idx])})
  <2>1. IsInjective(zoneLists[idx]) /\ Range(zoneLists[idx]) = ZonesOf(zones, idx)
    BY <1>1 DEF ListsOK
  <2>2. freeChunks[idx] = Cardinality(FreeOf(zones, idx))
    BY <1>1 DEF CountsOK
  <2> QED BY <2>1, <2>2 DEF FreeOf, ZonesOf, FreeIn
<1> QED BY <1>2, <1>3 DEF CountersAgree

\* The lists and the counters of free chunks agree with the zones.
THEOREM CountersCorrect == Spec => []CountersAgree
  BY InvCorrect, InvCounters, PTL

LEMMA InvDescriptor == Inv => DescriptorLeft
<1> SUFFICES ASSUME Inv PROVE DescriptorLeft
  OBVIOUS
<1>1. pageSize \in Nat /\ Consistent(zones, zoneLists, freeChunks, pageSize)
  BY InvMeans
<1>2. zoneDescIdx \in ZoneIdx /\ freeChunks[zoneDescIdx] \in Nat
  BY DescChunkSize, InvMeans
<1>3. ASSUME phase = "allocate" PROVE freeChunks[zoneDescIdx] >= 1
  BY <1>2, <1>3 DEF Inv, AllocateInv
<1>4. phase = "allocate" => descZone # nullptr
  BY <1>1, <1>2, <1>3, FreeZoneExists DEF descZone
<1>5. Idle /\ Initialized => freeChunks[zoneDescIdx] >= 1
  BY DEF Inv, IdleInv
<1> QED BY <1>4, <1>5 DEF DescriptorLeft

\* The asserts of allocateZone hold: a descriptor is always left.
THEOREM DescriptorLeftCorrect == Spec => []DescriptorLeft
  BY InvCorrect, InvDescriptor, PTL

LEMMA InvNoEmptyZone == Inv => NoEmptyZone
<1> SUFFICES ASSUME Inv, Idle, NEW z \in Descriptors
             PROVE  zones[z].freeChunksCount < zones[z].chunksCount
  BY DEF NoEmptyZone
<1>1. ~Full(zones[z]) /\ pageSize \in Nat /\ ZoneOK(zones[z], pageSize)
  BY IdleMemory, InvMeans DEF Names, Descriptors, ZonesOK
<1>2. /\ zones[z].freeChunksCount \in Nat /\ zones[z].chunksCount \in Nat
      /\ zones[z].freeChunksCount <= zones[z].chunksCount
  BY <1>1, FreeCounted DEF ZoneOK, ZoneType
<1> QED BY <1>1, <1>2 DEF Full

\* No zone without a chunk in use is left behind, except the initial one.
THEOREM NoEmptyZoneCorrect == Spec => []NoEmptyZone
  BY InvCorrect, InvNoEmptyZone, PTL

-----------------------------------------------------------------------------
(* The statistics.                                                         *)

\* The size of each chunk.
Bytes ==
    [c \in InZones |->
        CHOOSE s : \E z \in DOMAIN zones :
            c \in ChunksIn(zones[z], pageSize) /\ s = zones[z].chunkSize]

\* The chunks of the zones, and those of a list that are free.
ZoneParts == [z \in DOMAIN zones |-> ChunksIn(zones[z], pageSize)]
FreeParts == [idx \in ZoneIdx |-> FreeOf(zones, idx)]
AllFree == UnionOf(FreeParts, ZoneIdx)

LEMMA ZonePartsFamily ==
    ASSUME Inv
    PROVE  /\ IsFiniteSet(DOMAIN zones)
           /\ FiniteFamily(ZoneParts, DOMAIN zones)
           /\ FamilyApart(ZoneParts, DOMAIN zones)
           /\ InZones = UnionOf(ZoneParts, DOMAIN zones)
           /\ IsFiniteSet(InZones)
<1>1. ZonesOK(zones, pageSize) /\ pageSize \in Nat
  BY InvMeans
<1>2. IsFiniteSet(DOMAIN zones) /\ \A z \in DOMAIN zones : ZoneOK(zones[z], pageSize)
  BY <1>1 DEF ZonesOK
<1>3. FiniteFamily(ZoneParts, DOMAIN zones)
  BY <1>1, <1>2, ChunksCounted DEF FiniteFamily, ZoneParts
<1>4. FamilyApart(ZoneParts, DOMAIN zones)
  BY <1>1, ZonesApart DEF FamilyApart, ZoneParts
<1>5. \A z : zoneChunks(z) = ChunksIn(zones[z], pageSize)
  BY DEF zoneChunks, ChunksIn, pageAddr
<1>6. ASSUME NEW c PROVE c \in InZones <=> c \in UnionOf(ZoneParts, DOMAIN zones)
  BY <1>5, InUnion DEF InZones, ZoneParts
<1>7. InZones = UnionOf(ZoneParts, DOMAIN zones)
  BY <1>6
<1> QED BY <1>2, <1>3, <1>4, <1>7, FamilyFinite

LEMMA BytesOf ==
    ASSUME Inv, NEW z \in DOMAIN zones, NEW c \in ChunksIn(zones[z], pageSize)
    PROVE  /\ c \in InZones /\ c \in DOMAIN Bytes
           /\ Bytes[c] = zones[z].chunkSize
           /\ Bytes[c] \in Nat
<1>1. ZonesOK(zones, pageSize) /\ pageSize \in Nat
  BY InvMeans
<1>2. c \in InZones
  BY ZonePartsFamily, InUnion DEF ZoneParts
<1>3. \A y \in DOMAIN zones : c \in ChunksIn(zones[y], pageSize) => y = z
  BY <1>1, ZonesApart
<1>4. zones[z].chunkSize \in Nat
  BY <1>1 DEF ZonesOK, ZoneOK, ZoneType
<1> QED BY <1>2, <1>3, <1>4 DEF Bytes

LEMMA BytesType ==
    ASSUME Inv PROVE DOMAIN Bytes = InZones /\ \A c \in InZones : Bytes[c] \in Nat
<1>1. DOMAIN Bytes = InZones
  BY DEF Bytes
<1>2. ASSUME NEW c \in InZones PROVE Bytes[c] \in Nat
  <2>1. PICK z \in DOMAIN zones : c \in ChunksIn(zones[z], pageSize)
    BY ZonePartsFamily, InUnion DEF ZoneParts
  <2> QED BY <2>1, BytesOf
<1> QED BY <1>1, <1>2

\* The chunks of the zones fill their pages.
LEMMA AllBytes ==
    ASSUME Inv, Initialized
    PROVE  Weight(Bytes, InZones) = Cardinality(DOMAIN zones) * pageSize
<1>1. ZonesOK(zones, pageSize) /\ pageSize \in Nat /\ pageSize \in PageSizes
  BY InvMeans, PageSizeType DEF Inv
<1>2. PICK G : G = [z \in DOMAIN zones |-> pageSize] OBVIOUS
<1>3. ASSUME NEW z \in DOMAIN zones PROVE Weight(Bytes, ZoneParts[z]) = pageSize
  <2>1. ZoneOK(zones[z], pageSize)
    BY <1>1 DEF ZonesOK
  <2>2. PICK s \in Nat : s = zones[z].chunkSize
    BY <2>1 DEF ZoneOK, ZoneType
  <2>3. PICK P : P = ZoneParts[z] OBVIOUS
  <2>4. P = ChunksIn(zones[z], pageSize)
    BY <2>3 DEF ZoneParts
  <2>5. \A c \in P : Bytes[c] = s /\ c \in DOMAIN Bytes
    BY <2>2, <2>4, BytesOf
  <2>6. IsFiniteSet(P) /\ Cardinality(P) = pageSize \div s
    BY <1>1, <2>1, <2>2, <2>4, ChunksCounted DEF ZoneOK
  <2>7. Weight(Bytes, P) = Cardinality(P) * s
    BY <2>5, <2>6, WeightConstant
  <2>8. s \in ChunkSizes /\ s < pageSize
    BY <2>1, <2>2 DEF ZoneOK
  <2> QED BY <1>1, <2>3, <2>6, <2>7, <2>8, ChunksFillPages
<1>4. Weight(Bytes, UnionOf(ZoneParts, DOMAIN zones)) = Weight(G, DOMAIN zones)
  <2>1. \A z \in DOMAIN zones : G[z] = Weight(Bytes, ZoneParts[z])
    BY <1>2, <1>3
  <2>2. DOMAIN zones \in SUBSET DOMAIN G
    BY <1>2
  <2> QED BY <2>1, <2>2, ZonePartsFamily, BytesType, WeightOfUnion
<1>5. Weight(G, DOMAIN zones) = Cardinality(DOMAIN zones) * pageSize
  BY <1>1, <1>2, ZonePartsFamily, WeightConstant
<1> QED BY <1>4, <1>5, ZonePartsFamily

LEMMA ZoneIdxFinite == IsFiniteSet(ZoneIdx)
  BY SizesAssumption, FS_Interval DEF ZoneIdx

\* usedZonesCount counts the zones.
LEMMA ZonesCounted ==
    ASSUME Inv PROVE usedZonesCount = Cardinality(DOMAIN zones)
<1>1. PICK F : F = [idx \in ZoneIdx |-> Len(zoneLists[idx])] OBVIOUS
<1> DEFINE Fold(h) ==
               h = [s \in SUBSET ZoneIdx |->
                       IF s = {} THEN 0
                       ELSE Len(zoneLists[CHOOSE x \in s : TRUE])
                               + h[s \ {CHOOSE x \in s : TRUE}]]
<1>2. /\ ZonesOK(zones, pageSize)
      /\ zoneLists \in [ZoneIdx -> Seq(ZoneName)]
      /\ \A idx \in ZoneIdx : /\ IsInjective(zoneLists[idx])
                              /\ Range(zoneLists[idx]) = ZonesOf(zones, idx)
  BY DEF Inv, Consistent, ListsOK
<1>3. ZoneIdx \in SUBSET DOMAIN F /\ \A idx \in ZoneIdx : F[idx] \in Nat
  BY <1>1, <1>2
<1>4. ASSUME NEW h PROVE Fold(h) <=> IsSum(h, F, ZoneIdx)
  <2>1. ASSUME NEW s \in SUBSET ZoneIdx, s # {}
        PROVE  F[CHOOSE x \in s : TRUE] = Len(zoneLists[CHOOSE x \in s : TRUE])
    <3>1. (CHOOSE x \in s : TRUE) \in ZoneIdx
      BY <2>1
    <3> QED BY <1>1, <3>1
  <2> QED BY <2>1 DEF IsSum
<1>5. PICK h : h = CHOOSE g : Fold(g) OBVIOUS
<1>6. IsSum(h, F, ZoneIdx)
  <2>1. PICK g : IsSum(g, F, ZoneIdx)
    BY <1>3, ZoneIdxFinite, SumExists
  <2>2. Fold(g)
    BY <1>4, <2>1
  <2>3. \E f : Fold(f)
    BY <2>2
  <2>4. Fold(h)
    BY <1>5, <2>3
  <2> QED BY <1>4, <2>4
<1>7. usedZonesCount = h[ZoneIdx]
  BY <1>5 DEF usedZonesCount, MapThenSumSet, MapThenFoldSet
<1>8. usedZonesCount = Weight(F, ZoneIdx)
  BY <1>3, <1>6, <1>7, ZoneIdxFinite, SumIsWeight
<1>9. PICK A : A = [idx \in ZoneIdx |-> ZonesOf(zones, idx)] OBVIOUS
<1>10. ASSUME NEW idx \in ZoneIdx
       PROVE  IsFiniteSet(A[idx]) /\ Cardinality(A[idx]) = F[idx]
  <2>1. PICK l \in Seq(ZoneName) : l = zoneLists[idx]
    BY <1>2
  <2>2. IsInjective(l) /\ Range(l) = A[idx] /\ Len(l) = F[idx]
    BY <1>1, <1>2, <1>9, <2>1
  <2> QED BY <2>2, InjectiveRange
<1>11. FamilyApart(A, ZoneIdx)
  BY <1>9 DEF FamilyApart, ZonesOf
<1>12. ASSUME NEW z PROVE z \in UnionOf(A, ZoneIdx) <=> z \in DOMAIN zones
  BY <1>2, <1>9, InUnion DEF ZonesOf, ZonesOK, ZoneOK
<1>13. UnionOf(A, ZoneIdx) = DOMAIN zones
  BY <1>12
<1>14. Cardinality(UnionOf(A, ZoneIdx)) = Weight(F, ZoneIdx)
  <2>1. FiniteFamily(A, ZoneIdx)
    BY <1>10 DEF FiniteFamily
  <2> QED BY <1>3, <1>10, <1>11, <2>1, ZoneIdxFinite, WeightFamily
<1> QED BY <1>8, <1>13, <1>14

\* The list idx counts its free bytes.
FreeBytes ==
    [idx \in ZoneIdx |->
        IF zoneLists[idx] = <<>> THEN 0
        ELSE zones[Head(zoneLists[idx])].chunkSize * freeChunks[idx]]

LEMMA FreeBytesOf ==
    ASSUME Inv, NEW idx \in ZoneIdx
    PROVE  /\ FreeOf(zones, idx) \subseteq InZones
           /\ IsFiniteSet(FreeOf(zones, idx))
           /\ FreeBytes[idx] \in Nat
           /\ FreeBytes[idx] = Weight(Bytes, FreeOf(zones, idx))
<1>1. /\ ZonesOK(zones, pageSize) /\ CountsOK(zones, freeChunks)
      /\ ListsOK(zones, zoneLists) /\ pageSize \in Nat
  BY InvMeans DEF Consistent
<1>2. PICK l \in Seq(ZoneName) : l = zoneLists[idx]
  BY <1>1 DEF ListsOK
<1>3. Range(l) = ZonesOf(zones, idx)
  BY <1>1, <1>2 DEF ListsOK
<1>4. PICK U : U = FreeOf(zones, idx) OBVIOUS
<1>5. IsFiniteSet(U) /\ freeChunks[idx] = Cardinality(U) /\ freeChunks[idx] \in Nat
  BY <1>1, <1>4, FreeOfFinite, CounterValue
<1>6. ASSUME NEW c \in U
      PROVE  \E z \in ZonesOf(zones, idx) : c \in ChunksIn(zones[z], pageSize)
  BY <1>1, <1>4 DEF FreeOf, ZonesOf, ZonesOK, ZoneOK
<1>7. U \subseteq InZones
  BY <1>6, BytesOf DEF ZonesOf
<1>8. CASE l = <<>>
  <2>1. ZonesOf(zones, idx) = {}
    BY <1>3, <1>8 DEF Range
  <2>2. U = {}
    BY <1>6, <2>1
  <2>3. FreeBytes[idx] = 0
    BY <1>2, <1>8 DEF FreeBytes
  <2> QED BY <1>4, <1>5, <1>7, <2>2, <2>3, WeightEmpty
<1>9. CASE l # <<>>
  <2>1. Head(l) \in ZonesOf(zones, idx)
    BY <1>3, <1>9, TailFacts, EmptySeq
  <2>2. PICK y \in ZonesOf(zones, idx) : y = Head(l)
    BY <2>1
  <2>3. PICK s \in Nat : s = zones[y].chunkSize
    BY <1>1 DEF ZonesOf, ZonesOK, ZoneOK, ZoneType
  <2>4. ASSUME NEW c \in U PROVE Bytes[c] = s /\ c \in DOMAIN Bytes
    <3>1. PICK z \in ZonesOf(zones, idx) : c \in ChunksIn(zones[z], pageSize)
      BY <1>6
    <3>2. zones[z].chunkSize = s
      <4>1. /\ zones[z].chunkSize \in ChunkSizes /\ zones[y].chunkSize \in ChunkSizes
            /\ zoneIdx(zones[z].chunkSize) = zoneIdx(zones[y].chunkSize)
        BY <1>1 DEF ZonesOf, ZonesOK, ZoneOK
      <4> QED BY <2>3, <4>1, SameIndex
    <3> QED BY <3>1, <3>2, BytesOf DEF ZonesOf
  <2>5. Weight(Bytes, U) = Cardinality(U) * s
    BY <1>5, <2>4, WeightConstant
  <2>6. FreeBytes[idx] = s * freeChunks[idx]
    BY <1>2, <1>9, <2>2, <2>3 DEF FreeBytes
  <2>7. FreeBytes[idx] = Weight(Bytes, U) /\ FreeBytes[idx] \in Nat
    <3>1. PICK n \in Nat : n = freeChunks[idx]
      BY <1>5
    <3> QED BY <1>5, <2>5, <2>6, <3>1, NatProduct
  <2> QED BY <1>4, <1>5, <1>7, <2>7
<1> QED BY <1>8, <1>9

LEMMA FreePartsFamily ==
    ASSUME Inv
    PROVE  /\ FiniteFamily(FreeParts, ZoneIdx)
           /\ FamilyApart(FreeParts, ZoneIdx)
           /\ AllFree \subseteq InZones
           /\ IsFiniteSet(AllFree)
<1>1. FiniteFamily(FreeParts, ZoneIdx)
  BY FreeBytesOf DEF FiniteFamily, FreeParts
<1>2. ASSUME NEW i \in ZoneIdx, NEW j \in ZoneIdx, i # j,
             NEW c \in FreeOf(zones, i), c \in FreeOf(zones, j)
      PROVE  FALSE
  <2>1. PICK y \in ZonesOf(zones, i) : c \in FreeIn(zones[y])
    BY DEF FreeOf
  <2>2. PICK z \in ZonesOf(zones, j) : c \in FreeIn(zones[z])
    BY <1>2 DEF FreeOf
  <2>3. y # z /\ y \in DOMAIN zones /\ z \in DOMAIN zones
    BY <1>2 DEF ZonesOf
  <2> QED BY <2>1, <2>2, <2>3, InvMeans, ZonesApart
<1>3. FamilyApart(FreeParts, ZoneIdx)
  BY <1>2 DEF FamilyApart, FreeParts
<1>4. AllFree \subseteq InZones
  BY FreeBytesOf, InUnion DEF AllFree, FreeParts
<1> QED BY <1>1, <1>3, <1>4, ZoneIdxFinite, FamilyFinite DEF AllFree

LEMMA FreeCountedInBytes ==
    ASSUME Inv PROVE freeMemorySize = Weight(Bytes, AllFree)
<1>1. PICK F : F = FreeBytes OBVIOUS
<1> DEFINE Fold(h) ==
               h = [s \in SUBSET ZoneIdx |->
                       IF s = {} THEN 0
                       ELSE (IF zoneLists[CHOOSE x \in s : TRUE] = <<>> THEN 0
                             ELSE zones[Head(zoneLists[CHOOSE x \in s : TRUE])].chunkSize
                                     * freeChunks[CHOOSE x \in s : TRUE])
                               + h[s \ {CHOOSE x \in s : TRUE}]]
<1>2. ZoneIdx \in SUBSET DOMAIN F /\ \A idx \in ZoneIdx : F[idx] \in Nat
  BY <1>1, FreeBytesOf DEF FreeBytes
<1>3. ASSUME NEW h PROVE Fold(h) <=> IsSum(h, F, ZoneIdx)
  <2>1. ASSUME NEW s \in SUBSET ZoneIdx, s # {}
        PROVE  F[CHOOSE x \in s : TRUE] =
                  IF zoneLists[CHOOSE x \in s : TRUE] = <<>> THEN 0
                  ELSE zones[Head(zoneLists[CHOOSE x \in s : TRUE])].chunkSize
                          * freeChunks[CHOOSE x \in s : TRUE]
    <3>1. PICK idx \in ZoneIdx : idx = CHOOSE x \in s : TRUE
      BY <2>1
    <3>2. F[idx] = IF zoneLists[idx] = <<>> THEN 0
                   ELSE zones[Head(zoneLists[idx])].chunkSize * freeChunks[idx]
      BY <1>1 DEF FreeBytes
    <3> QED BY <3>1, <3>2
  <2> QED BY <2>1 DEF IsSum
<1>4. PICK h : h = CHOOSE g : Fold(g) OBVIOUS
<1>5. IsSum(h, F, ZoneIdx)
  <2>1. PICK g : IsSum(g, F, ZoneIdx)
    BY <1>2, ZoneIdxFinite, SumExists
  <2>2. Fold(g)
    BY <1>3, <2>1
  <2>3. \E f : Fold(f)
    BY <2>2
  <2>4. Fold(h)
    BY <1>4, <2>3
  <2> QED BY <1>3, <2>4
<1>6. freeMemorySize = h[ZoneIdx]
  BY <1>4 DEF freeMemorySize, MapThenSumSet, MapThenFoldSet
<1>7. h[ZoneIdx] = Weight(F, ZoneIdx)
  BY <1>2, <1>5, ZoneIdxFinite, SumIsWeight
<1>8. \A idx \in ZoneIdx : F[idx] = Weight(Bytes, FreeParts[idx])
  BY <1>1, FreeBytesOf DEF FreeParts
<1>9. Weight(Bytes, AllFree) = Weight(F, ZoneIdx)
  <2>1. FiniteFamily(FreeParts, ZoneIdx) /\ FamilyApart(FreeParts, ZoneIdx)
    BY FreePartsFamily
  <2>2. /\ UnionOf(FreeParts, ZoneIdx) \subseteq DOMAIN Bytes
        /\ \A c \in UnionOf(FreeParts, ZoneIdx) : Bytes[c] \in Nat
    BY FreePartsFamily, BytesType DEF AllFree
  <2> QED BY <1>2, <1>8, <2>1, <2>2, ZoneIdxFinite, WeightOfUnion DEF AllFree
<1> QED BY <1>6, <1>7, <1>9

\* What the clients hold in zones.
HeldBlocks == DOMAIN held \cap InZones
HeldBytes == [b \in HeldBlocks |-> chunkSize(held[b])]

LEMMA HeldBytesOf ==
    ASSUME Inv, NEW b \in HeldBlocks
    PROVE  HeldBytes[b] = Bytes[b] /\ HeldBytes[b] \in Nat
<1>1. PICK z \in DOMAIN zones : b \in ChunksIn(zones[z], pageSize)
  BY ZonePartsFamily, InUnion DEF HeldBlocks, ZoneParts
<1>2. chunkSize(held[b]) = zones[z].chunkSize
  BY <1>1 DEF HeldBlocks, Inv, OwnersOK
<1> QED BY <1>1, <1>2, BytesOf DEF HeldBytes

LEMMA HeldCountedInBytes ==
    ASSUME Inv
    PROVE  MapThenSumSet(LAMBDA b : chunkSize(held[b]), DOMAIN held \cap InZones)
              = Weight(Bytes, HeldBlocks)
<1>1. PICK F : F = HeldBytes OBVIOUS
<1>2. PICK S : S = HeldBlocks OBVIOUS
<1> DEFINE Fold(h) ==
               h = [s \in SUBSET S |->
                       IF s = {} THEN 0
                       ELSE chunkSize(held[CHOOSE x \in s : TRUE])
                               + h[s \ {CHOOSE x \in s : TRUE}]]
<1>3. S \in SUBSET DOMAIN F /\ \A b \in S : F[b] \in Nat
  BY <1>1, <1>2, HeldBytesOf DEF HeldBytes
<1>4. IsFiniteSet(S)
  BY <1>2, ZonePartsFamily, FS_Subset DEF HeldBlocks
<1>5. ASSUME NEW h PROVE Fold(h) <=> IsSum(h, F, S)
  <2>1. ASSUME NEW s \in SUBSET S, s # {}
        PROVE  F[CHOOSE x \in s : TRUE] = chunkSize(held[CHOOSE x \in s : TRUE])
    <3>1. PICK b \in S : b = CHOOSE x \in s : TRUE
      BY <2>1
    <3>2. F[b] = chunkSize(held[b])
      BY <1>1, <1>2 DEF HeldBytes
    <3> QED BY <3>1, <3>2
  <2> QED BY <2>1 DEF IsSum
<1>6. PICK h : h = CHOOSE g : Fold(g) OBVIOUS
<1>7. IsSum(h, F, S)
  <2>1. PICK g : IsSum(g, F, S)
    BY <1>3, <1>4, SumExists
  <2>2. Fold(g)
    BY <1>5, <2>1
  <2>3. \E f : Fold(f)
    BY <2>2
  <2>4. Fold(h)
    BY <1>6, <2>3
  <2> QED BY <1>5, <2>4
<1>8. MapThenSumSet(LAMBDA b : chunkSize(held[b]), S) = h[S]
  BY <1>6 DEF MapThenSumSet, MapThenFoldSet
<1>9. h[S] = Weight(F, S)
  BY <1>3, <1>4, <1>7, SumIsWeight
<1>10. Weight(F, S) = Weight(Bytes, S)
  <2>1. S \in SUBSET DOMAIN Bytes
    BY <1>2, BytesType DEF HeldBlocks
  <2>2. \A b \in S : F[b] = Bytes[b]
    BY <1>1, <1>2, HeldBytesOf
  <2> QED BY <1>3, <2>1, <2>2, WeightSame
<1> QED BY <1>2, <1>8, <1>9, <1>10 DEF HeldBlocks

LEMMA DescriptorsCountedInBytes ==
    ASSUME Inv, Initialized
    PROVE  /\ Descriptors \subseteq InZones
           /\ IsFiniteSet(Descriptors)
           /\ Cardinality(DOMAIN zones) \in Nat \ {0}
           /\ zoneDescChunkSize \in Nat
           /\ Weight(Bytes, Descriptors) =
                 (Cardinality(DOMAIN zones) - 1) * zoneDescChunkSize
<1>1. ZonesOK(zones, pageSize) /\ OwnersOK
  BY InvMeans DEF Inv
<1>2. PICK s \in Nat : s = zoneDescChunkSize
  BY DescChunkSize, ChunkSizesType
<1>3. ASSUME NEW d \in Descriptors
      PROVE  d \in InZones /\ d \in DOMAIN Bytes /\ Bytes[d] = s
  <2>1. PICK z \in ZonesOf(zones, zoneDescIdx) : d \in ChunksIn(zones[z], pageSize)
    BY <1>1 DEF OwnersOK, InDescZone
  <2>2. /\ z \in DOMAIN zones /\ zones[z].chunkSize \in ChunkSizes
        /\ zoneIdx(zones[z].chunkSize) = zoneIdx(zoneDescChunkSize)
    BY <1>1 DEF ZonesOf, ZonesOK, ZoneOK, zoneDescIdx
  <2>3. zones[z].chunkSize = s
    BY <1>2, <2>2, DescChunkSize, SameIndex
  <2> QED BY <2>1, <2>2, <2>3, BytesOf
<1>4. PICK n : n = Cardinality(DOMAIN zones) OBVIOUS
<1>5. /\ IsFiniteSet(Descriptors)
      /\ Cardinality(Descriptors) = n - 1
      /\ n \in Nat \ {0}
  <2>1. IsFiniteSet(DOMAIN zones) /\ initialZone \in DOMAIN zones
    BY <1>1 DEF ZonesOK, Initialized
  <2>2. n \in Nat
    BY <1>4, <2>1, FS_CardinalityType
  <2>3. IsFiniteSet(Descriptors) /\ Cardinality(Descriptors) = n - 1
    BY <1>4, <2>1, FS_RemoveElement DEF Descriptors
  <2>4. n # 0
    BY <1>4, <2>1, FS_EmptySet
  <2> QED BY <2>2, <2>3, <2>4
<1>6. Weight(Bytes, Descriptors) = Cardinality(Descriptors) * s
  <2>1. Descriptors \in SUBSET DOMAIN Bytes
    BY <1>3
  <2> QED BY <1>3, <1>5, <2>1, WeightConstant
<1> QED BY <1>2, <1>3, <1>4, <1>5, <1>6

\* When no call runs, a chunk is free, a descriptor or a client's.
LEMMA BytesSplit ==
    ASSUME Inv, Idle, Initialized
    PROVE  Weight(Bytes, InZones) =
              Weight(Bytes, AllFree) + Weight(Bytes, Descriptors)
                                     + Weight(Bytes, HeldBlocks)
<1>1. ZonesOK(zones, pageSize) /\ OwnersOK /\ Deallocated = {}
  BY InvMeans DEF Inv, Idle, Deallocated, Deallocating
<1>2. ASSUME NEW c PROVE c \in AllFree <=> \E z \in DOMAIN zones : c \in FreeIn(zones[z])
  <2>1. c \in AllFree <=> \E idx \in ZoneIdx : c \in FreeOf(zones, idx)
    BY InUnion DEF AllFree, FreeParts
  <2>2. \A z \in DOMAIN zones : zoneIdx(zones[z].chunkSize) \in ZoneIdx
    BY <1>1 DEF ZonesOK, ZoneOK
  <2> QED BY <2>1, <2>2 DEF FreeOf, ZonesOf
<1>3. InZones = AllFree \cup (Descriptors \cup HeldBlocks)
  <2>1. AllFree \subseteq InZones /\ Descriptors \subseteq InZones
        /\ HeldBlocks \subseteq InZones
    BY FreePartsFamily, DescriptorsCountedInBytes DEF HeldBlocks
  <2>2. ASSUME NEW c \in InZones PROVE c \in AllFree \cup (Descriptors \cup HeldBlocks)
    <3>1. PICK z \in DOMAIN zones : c \in ChunksIn(zones[z], pageSize)
      BY ZonePartsFamily, InUnion DEF ZoneParts
    <3>2. c \in FreeIn(zones[z]) \/ c \in Descriptors \cup DOMAIN held
      BY <1>1, <3>1 DEF OwnersOK, Used
    <3> QED BY <1>2, <3>2 DEF HeldBlocks
  <2> QED BY <2>1, <2>2
<1>4. AllFree \cap (Descriptors \cup HeldBlocks) = {}
  BY <1>1, <1>2 DEF OwnersOK, Used, HeldBlocks
<1>5. Descriptors \cap HeldBlocks = {}
  BY <1>1 DEF OwnersOK, HeldBlocks
<1>6. /\ IsFiniteSet(AllFree) /\ IsFiniteSet(Descriptors) /\ IsFiniteSet(HeldBlocks)
      /\ IsFiniteSet(Descriptors \cup HeldBlocks)
  <2>1. IsFiniteSet(InZones)
    BY ZonePartsFamily
  <2> QED BY <1>3, <2>1, FS_Subset
<1>7. /\ AllFree \in SUBSET DOMAIN Bytes /\ Descriptors \in SUBSET DOMAIN Bytes
      /\ HeldBlocks \in SUBSET DOMAIN Bytes
      /\ \A c \in DOMAIN Bytes : Bytes[c] \in Nat
  BY <1>3, BytesType
<1>8. Weight(Bytes, Descriptors \cup HeldBlocks) =
         Weight(Bytes, Descriptors) + Weight(Bytes, HeldBlocks)
  BY <1>5, <1>6, <1>7, WeightJoin
<1>9. Weight(Bytes, InZones) =
         Weight(Bytes, AllFree) + Weight(Bytes, Descriptors \cup HeldBlocks)
  <2>1. Descriptors \cup HeldBlocks \in SUBSET DOMAIN Bytes
    BY <1>7
  <2> QED BY <1>3, <1>4, <1>6, <1>7, <2>1, WeightJoin
<1>10. /\ Weight(Bytes, AllFree) \in Nat /\ Weight(Bytes, Descriptors) \in Nat
       /\ Weight(Bytes, HeldBlocks) \in Nat
  BY <1>6, <1>7, WeightType
<1> QED BY <1>8, <1>9, <1>10

LEMMA InvAllocatedMemory == Inv => AllocatedMemoryExact
<1> SUFFICES ASSUME Inv, Idle
             PROVE  allocatedMemorySize = Weight(Bytes, HeldBlocks)
  BY HeldCountedInBytes DEF AllocatedMemoryExact
<1>1. PICK n : n = Cardinality(DOMAIN zones) OBVIOUS
<1>2. usedZonesCount = n
  BY <1>1, ZonesCounted
<1>3. PICK ps \in Nat : ps = pageSize
  BY InvMeans
<1>4. PICK free \in Nat : free = Weight(Bytes, AllFree) /\ free = freeMemorySize
  <2>1. AllFree \in SUBSET DOMAIN Bytes /\ \A c \in AllFree : Bytes[c] \in Nat
    BY FreePartsFamily, BytesType
  <2> QED BY <2>1, FreePartsFamily, WeightType, FreeCountedInBytes
<1>5. PICK clients \in Nat : clients = Weight(Bytes, HeldBlocks)
  <2>1. HeldBlocks \in SUBSET DOMAIN Bytes /\ \A c \in HeldBlocks : Bytes[c] \in Nat
    BY BytesType DEF HeldBlocks
  <2>2. IsFiniteSet(HeldBlocks)
    BY ZonePartsFamily, FS_Subset DEF HeldBlocks
  <2> QED BY <2>1, <2>2, WeightType
<1>6. CASE Initialized
  <2>1. PICK s \in Nat : s = zoneDescChunkSize
    BY <1>6, DescriptorsCountedInBytes
  <2>2. n \in Nat \ {0} /\ Weight(Bytes, Descriptors) = (n - 1) * s
    BY <1>1, <1>6, <2>1, DescriptorsCountedInBytes
  <2>3. PICK r \in Nat : r = (n - 1) * s
    BY <2>2, NatProduct
  <2>4. reservedMemorySize = r
    BY <1>2, <2>1, <2>2, <2>3 DEF reservedMemorySize
  <2>5. PICK t \in Nat : t = n * ps /\ t = usedMemorySize
    BY <1>2, <1>3, <2>2, NatProduct DEF usedMemorySize
  <2>6. t = free + r + clients
    BY <1>1, <1>3, <1>4, <1>5, <1>6, <2>2, <2>3, <2>5, AllBytes, BytesSplit
  <2> QED BY <1>4, <1>5, <2>4, <2>5, <2>6 DEF allocatedMemorySize
<1>7. CASE ~Initialized
  <2>1. DOMAIN zones = {} /\ DOMAIN held = {}
    BY <1>7 DEF Inv, StartInv
  <2>2. n = 0
    BY <1>1, <2>1, FS_EmptySet
  <2>3. usedMemorySize = 0 /\ reservedMemorySize = 0
    BY <1>2, <1>3, <2>2 DEF usedMemorySize, reservedMemorySize
  <2>4. InZones = {}
    BY <2>1 DEF InZones
  <2>5. AllFree = {} /\ HeldBlocks = {}
    BY <2>4, FreePartsFamily DEF HeldBlocks
  <2>6. free = 0 /\ clients = 0
    BY <1>4, <1>5, <2>5, WeightEmpty
  <2> QED BY <1>4, <1>5, <2>3, <2>6 DEF allocatedMemorySize
<1> QED BY <1>6, <1>7

\* getStats accounts for every byte of the zones: what is neither free nor a
\* descriptor is the clients'.
THEOREM AllocatedMemoryCorrect == Spec => []AllocatedMemoryExact
  BY InvCorrect, InvAllocatedMemory, PTL

-----------------------------------------------------------------------------
(* An allocateZone that fails: FailureInv.                                 *)

\* What is put together again is equal to what it was: a function is its
\* values.
ZonesFunction == zones = [z \in DOMAIN zones |-> zones[z]]

LEMMA ZonesFunctionStep == ZonesFunction /\ [Next]_vars => ZonesFunction'
<1> SUFFICES ASSUME ZonesFunction, [Next]_vars PROVE ZonesFunction'
  OBVIOUS
<1>1. \/ zones' = zones \/ zones' = Nothing
      \/ \E zone : zones' = [z \in {initialZone} |-> zone]
      \/ \E z, zone : zones' = [zones EXCEPT ![z] = zone]
      \/ \E z, y, zone, new : zones' = with([zones EXCEPT ![z] = zone], y, new)
      \/ \E z : zones' = without(zones, z)
  <2>1. CASE UNCHANGED vars
    BY <2>1 DEF vars, zoneVars
  <2>2. CASE Call
    <3>1. CASE Clear \/ InitRejected \/ ReleaseNull
      BY <3>1 DEF Clear, InitRejected, clear, ReleaseNull, zoneVars
    <3>2. ASSUME NEW size, InitPool(size)
          PROVE  zones' = Nothing \/ \E zone : zones' = [z \in {initialZone} |-> zone]
      BY <3>2 DEF InitPool, InitFails, InitSucceeds, clear
    <3>3. ASSUME NEW size, AllocateRun(size) PROVE zones' = zones
      BY <3>3 DEF AllocateRun, AllocatePages, zoneVars
    <3>4. ASSUME NEW size, AllocateNothing(size) \/ AllocateThrows(size) \/ AllocateStart(size)
          PROVE  zones' = zones
      BY <3>4 DEF AllocateNothing, AllocateThrows, AllocateStart, zoneVars
    <3>5. ASSUME NEW size, AllocateChunk(size)
          PROVE  zones' = zones \/ \E z, zone : zones' = [zones EXCEPT ![z] = zone]
      BY <3>5 DEF AllocateChunk
    <3>6. ASSUME NEW addr, Release(addr) PROVE zones' = zones
      BY <3>6 DEF Release, zoneVars
    <3> QED BY <2>2, <3>1, <3>2, <3>3, <3>4, <3>5, <3>6 DEF Call
  <2>3. CASE Step
    <3>1. CASE AllocateDescZone \/ NotInZones
      BY <3>1 DEF AllocateDescZone, NotInZones, zoneVars
    <3>2. CASE ZoneFails
      BY <3>2 DEF ZoneFails
    <3>3. ASSUME NEW p, AddZone(p)
          PROVE  \E z, y, zone, new : zones' = with([zones EXCEPT ![z] = zone], y, new)
      BY <3>3 DEF AddZone
    <3>4. CASE GiveChunk
      BY <3>4 DEF GiveChunk, givenBack
    <3>5. CASE RemoveZone
      BY <3>5 DEF RemoveZone
    <3> QED BY <2>3, <3>1, <3>2, <3>3, <3>4, <3>5 DEF Step, AllocateZone
  <2> QED BY <2>1, <2>2, <2>3 DEF Next
<1> QED BY <1>1 DEF ZonesFunction, Nothing, with, without

LEMMA SameRuns ==
    ASSUME UNCHANGED <<areas, pagesHeld>>, NEW n
    PROVE  Pages!FreeRuns(n)' = Pages!FreeRuns(n)
  BY DEF Pages!FreeRuns, Pages!Taken, Pages!Run

\* A call has ended, and refused nothing.
LEMMA NotRefused ==
    ASSUME phase' = "idle",
           \/ reply'.op # "allocate"
           \/ reply'.result # nullptr
           \/ reply'.size = 0
    PROVE  FailureInv'
  BY DEF FailureInv, AllocateBefore, UndoBefore, RefusedOnlyWithoutPages

LEMMA ReplyFields ==
    /\ \A size, result : /\ AllocReply(size, result).op = "allocate"
                         /\ AllocReply(size, result).size = size
                         /\ AllocReply(size, result).result = result
    /\ \A op, result : Reply(op, result).op = op
    /\ NoReply.op = "none"
  BY DEF AllocReply, Reply, NoReply

LEMMA AllocateRunFailure ==
    ASSUME Inv, NEW size \in AllocSizes, AllocateRun(size)
    PROVE  FailureInv'
<1>1. CASE /\ AllocatePages(size, nullptr) /\ UNCHANGED <<areas, pagesHeld>>
           /\ Pages!FreeRuns(pagesFor(size)) = {}
  <2>1. /\ phase' = "idle" /\ reply' = AllocReply(size, nullptr)
        /\ pageSize' = pageSize /\ isForPages(size)
    BY <1>1 DEF AllocatePages, Returns, NoCall
  <2>2. isForPages(size)' /\ pagesFor(size)' = pagesFor(size)
    BY <2>1 DEF isForPages, pagesFor
  <2>3. PICK n : n = pagesFor(size) OBVIOUS
  <2>4. Pages!FreeRuns(n)' = {}
    BY <1>1, <2>3, SameRuns
  <2>5. Pages!FreeRuns(pagesFor(size))' = {}
    BY <2>2, <2>3, <2>4 DEF Pages!FreeRuns, Pages!Run
  <2>6. RefusedOnlyWithoutPages'
    BY <2>1, <2>2, <2>5, ReplyFields DEF RefusedOnlyWithoutPages
  <2> QED BY <2>1, <2>6 DEF FailureInv, AllocateBefore, UndoBefore
<1>2. ASSUME NEW p \in Pages!FreeRuns(pagesFor(size)), AllocatePages(size, p)
      PROVE  FailureInv'
  <2>1. /\ RunsOK /\ StartInv /\ Initialized /\ size \in Nat \ {0}
    BY <1>2, SizesAssumption DEF Inv, AllocatePages
  <2>2. pageSize \in Nat \ {0} /\ pagesFor(size) \in Nat \ {0}
    BY <2>1, PageSizeType, PagesForSize
  <2>3. p \in Nat \ {0}
    BY <2>1, <2>2, FreeRun
  <2>4. pageAddr(p) \in Nat
    BY <2>2, <2>3, NatProduct DEF pageAddr
  <2>5. p # nullptr /\ pageAddr(p) # nullptr
    BY <2>3, <2>4, NamesAssumption
  <2>6. phase' = "idle" /\ reply' = AllocReply(size, pageAddr(p))
    BY <1>2, <2>5 DEF AllocatePages, Returns, NoCall
  <2> QED BY <2>5, <2>6, ReplyFields, NotRefused
<1> QED BY <1>1, <1>2 DEF AllocateRun

\* A list whose counter asks for no zone has a chunk.
LEMMA ChunkLeft ==
    ASSUME Inv, Idle, Initialized, NEW idx \in ZoneIdx, ~shouldAllocateZone(idx)
    PROVE  getFreeZone(idx) # nullptr
<1>1. /\ pageSize \in Nat /\ freeChunks[idx] \in Nat
      /\ Consistent(zones, zoneLists, freeChunks, pageSize)
  BY InvMeans
<1>2. freeChunks[zoneDescIdx] >= 1
  BY IdleMemory
<1>3. freeChunks[idx] >= 1
  BY <1>1, <1>2 DEF shouldAllocateZone
<1> QED BY <1>1, <1>3, FreeZoneExists

LEMMA AllocateChunkFailure ==
    ASSUME Inv, Inv', NEW size \in AllocSizes, AllocateChunk(size)
    PROVE  FailureInv'
<1>1. PICK idx, z : idx = zoneIdx(chunkSize(size)) /\ z = getFreeZone(idx)
  OBVIOUS
<1>2. Idle /\ Initialized /\ idx \in ZoneIdx /\ ~shouldAllocateZone(idx)
  BY <1>1 DEF AllocateChunk, isForZones
<1>3. z # nullptr
  BY <1>1, <1>2, ChunkLeft
<1>4. PICK c : c = firstChunk(zones[z]) OBVIOUS
<1>5. held' = with(held, c, size) /\ reply' = AllocReply(size, c) /\ phase' = "idle"
  BY <1>1, <1>3, <1>4 DEF AllocateChunk, Returns, NoCall
<1>6. c \in DOMAIN held' /\ DOMAIN held' \subseteq Nat
  BY <1>5 DEF with, Inv, StartInv
<1>7. c # nullptr
  BY <1>6, NamesAssumption
<1> QED BY <1>5, <1>7, ReplyFields, NotRefused

LEMMA AllocateStartFailure ==
    ASSUME Inv, ZonesFunction, NEW size \in AllocSizes, AllocateStart(size)
    PROVE  FailureInv'
<1>1. /\ Idle /\ phase' = "allocate" /\ frames' = <<Frame(chunkSize(size), FALSE)>>
      /\ reply' = NoReply /\ before' = <<zones, zoneLists, freeChunks>>
      /\ UNCHANGED <<pageSize, zones, zoneLists, freeChunks>>
  BY DEF AllocateStart, isForZones, Frame, zoneVars
<1>2. zonesBefore' = zones /\ listsBefore' = zoneLists /\ countersBefore' = freeChunks
  BY <1>1 DEF zonesBefore, listsBefore, countersBefore
<1>3. /\ Consistent(zones, zoneLists, freeChunks, pageSize)
      /\ \A y \in DOMAIN zones \ {initialZone} : ~Full(zones[y])
  BY <1>1, IdleMemory DEF Memory, Names
<1>4. BeforeOK'
  BY <1>1, <1>2, <1>3 DEF BeforeOK, ZonesFunction
<1>5. ~DescZoneAdded' /\ Len(frames') = 1
  BY <1>1 DEF DescZoneAdded, frame, Frame
<1>6. AllocateBefore'
  BY <1>1, <1>5 DEF AllocateBefore, zoneVars
<1>7. RefusedOnlyWithoutPages'
  BY <1>1, ReplyFields DEF RefusedOnlyWithoutPages
<1> QED BY <1>1, <1>4, <1>6, <1>7 DEF FailureInv, UndoBefore

LEMMA CallFailure == Inv /\ Inv' /\ ZonesFunction /\ Call => FailureInv'
<1> SUFFICES ASSUME Inv, Inv', ZonesFunction, Call PROVE FailureInv'
  OBVIOUS
<1>1. CASE Clear \/ InitRejected \/ ReleaseNull
  <2>1. phase' = "idle" /\ \E result : \E op \in {"clear", "init", "release"} :
                             reply' = Reply(op, result)
    BY <1>1 DEF Clear, InitRejected, ReleaseNull, Returns, NoCall
  <2>2. reply'.op # "allocate"
    BY <2>1, ReplyFields
  <2> QED BY <2>1, <2>2, NotRefused
<1>2. ASSUME NEW size \in PageSizes, InitPool(size) PROVE FailureInv'
  <2>1. InitFails(size) \/ \E p : InitSucceeds(size, p)
    BY <1>2 DEF InitPool
  <2>2. phase' = "idle" /\ \E result : reply' = Reply("init", result)
    BY <2>1 DEF InitFails, InitSucceeds, Returns, NoCall
  <2>3. reply'.op = "init"
    BY <2>2, ReplyFields
  <2> QED BY <2>2, <2>3, NotRefused
<1>3. ASSUME NEW size \in AllocSizes, AllocateNothing(size) \/ AllocateThrows(size)
      PROVE  FailureInv'
  <2>1. phase' = "idle" /\ (reply'.size = 0 \/ reply'.op # "allocate")
    BY <1>3, ReplyFields DEF AllocateNothing, AllocateThrows, Returns, NoCall
  <2> QED BY <2>1, NotRefused
<1>4. ASSUME NEW addr \in DOMAIN held, Release(addr) PROVE FailureInv'
  <2>1. phase' = "release" /\ reply' = NoReply
    BY <1>4 DEF Release
  <2> QED BY <2>1, ReplyFields
          DEF FailureInv, AllocateBefore, UndoBefore, RefusedOnlyWithoutPages
<1> QED BY <1>1, <1>2, <1>3, <1>4, AllocateRunFailure, AllocateChunkFailure,
           AllocateStartFailure DEF Call

LEMMA AllocateDescZoneFailure ==
    ASSUME Inv, FailureInv, AllocateDescZone
    PROVE  FailureInv'
<1>1. /\ phase = "allocate" /\ ~DescZoneAdded /\ ~DescZoneAdded'
      /\ chunkSize(argument) # zoneDescChunkSize
      /\ freeChunks[zoneDescIdx] = 1
      /\ UNCHANGED <<pageSize, zones, zoneLists, freeChunks, phase, argument, reply, before>>
  BY DescZoneCalled
<1>2. BeforeOK /\ zoneVars = before /\ reply = NoReply
  BY <1>1 DEF FailureInv, AllocateBefore
<1>3. BeforeOK'
  BY <1>1, <1>2 DEF BeforeOK, zonesBefore, listsBefore, countersBefore
<1>4. TwoPages'
  BY <1>1, <1>2 DEF TwoPages, countersBefore, zoneVars
<1>5. AllocateBefore'
  BY <1>1, <1>2, <1>4 DEF AllocateBefore, zoneVars
<1> QED BY <1>1, <1>2, <1>3, <1>5, ReplyFields
        DEF FailureInv, UndoBefore, RefusedOnlyWithoutPages

\* The descriptor is not the name of a zone.
LEMMA NewDescName ==
    ASSUME Inv, NeedsPage PROVE newDesc \in Nat \ DOMAIN zones
<1>1. PICK Z1, F1 : TakesChunk(zones, freeChunks, descZone, Z1, F1)
  BY DescZoneFound, ExceptUpdates DEF TakesChunk
<1>2. newDesc \in Nat /\ newDesc \notin Names(zones) \cup DOMAIN held
  BY <1>1, BeforePage, DescZoneFound, TakenChunk DEF newDesc
<1>3. newDesc # initialZone
  BY <1>2, NamesAssumption
<1> QED BY <1>2, <1>3 DEF Names

\* When no zone was added before.
LEMMA FirstDescriptor ==
    ASSUME Inv, FailureInv, NeedsPage, ~DescZoneAdded, UNCHANGED before
    PROVE  /\ zones = zonesBefore /\ zoneLists = listsBefore
           /\ freeChunks = countersBefore
           /\ newDesc = firstChunk(zonesBefore[descZone])
           /\ descZone \in DOMAIN zonesBefore
           /\ HasDescriptor(descZone)
           /\ zonesBefore' = zonesBefore /\ listsBefore' = listsBefore
           /\ countersBefore' = countersBefore
<1>1. zoneVars = before
  BY DEF NeedsPage, FailureInv, AllocateBefore
<1>2. zones = zonesBefore /\ zoneLists = listsBefore /\ freeChunks = countersBefore
  BY <1>1 DEF zonesBefore, listsBefore, countersBefore, zoneVars
<1>3. HasDescriptor(descZone) /\ descZone \in DOMAIN zonesBefore
  BY <1>2, DescZoneFound, NewDescName DEF HasDescriptor, newDesc
<1> QED BY <1>2, <1>3 DEF newDesc, zonesBefore, listsBefore, countersBefore

\* The descriptor is taken before a page is asked for.
LEMMA DescriptorTakenNext ==
    ASSUME UNCHANGED before, NEW y, HasDescriptor(y),
           zones' = [zonesBefore EXCEPT ![y] = takeChunk(zonesBefore[y])],
           zoneLists' = listsBefore,
           freeChunks' = [countersBefore EXCEPT ![zoneDescIdx] =
                             countersBefore[zoneDescIdx] - 1]
    PROVE  HasDescriptor(y)' /\ DescriptorTaken(y)'
<1>1. /\ zonesBefore' = zonesBefore /\ listsBefore' = listsBefore
      /\ countersBefore' = countersBefore
  BY DEF zonesBefore, listsBefore, countersBefore
<1>2. HasDescriptor(y)'
  BY <1>1 DEF HasDescriptor, ZonesOf
<1>3. DescriptorTaken(y)'
  BY <1>1 DEF DescriptorTaken, withoutDescriptor
<1> QED BY <1>2, <1>3

LEMMA TwoPagesNext ==
    ASSUME TwoPages, UNCHANGED <<before, argument>> PROVE TwoPages'
  BY DEF TwoPages, countersBefore

LEMMA BeforeKept ==
    ASSUME BeforeOK, UNCHANGED <<before, pageSize>> PROVE BeforeOK'
  BY DEF BeforeOK, zonesBefore, listsBefore, countersBefore

LEMMA WithTwice ==
    ASSUME NEW f, NEW x, NEW a, NEW b
    PROVE  [with(f, x, a) EXCEPT ![x] = b] = with(f, x, b)
  BY DEF with

LEMMA WithWithout ==
    ASSUME NEW f, f = [z \in DOMAIN f |-> f[z]], NEW x, x \notin DOMAIN f, NEW a
    PROVE  without(with(f, x, a), x) = f
<1>1. PICK g : g = without(with(f, x, a), x) OBVIOUS
<1>2. DOMAIN g = DOMAIN f /\ g = [z \in DOMAIN g |-> g[z]]
  BY <1>1 DEF with, without
<1>3. \A z \in DOMAIN f : g[z] = f[z]
  BY <1>1 DEF with, without
<1> QED BY <1>1, <1>2, <1>3

\* The new zone of descriptors on page p.
LEMMA NewDescZone ==
    ASSUME Inv, Initialized, NEW p \in UNION areas
    PROVE  /\ p \in Nat
           /\ ZoneOK(newDescZone(p), pageSize)
           /\ newDescZone(p).page = p
           /\ zoneIdx(newDescZone(p).chunkSize) = zoneDescIdx
           /\ newDescZone(p).freeChunksCount \in Nat
           /\ newDescZone(p).freeChunksCount >= 2
           /\ Full(newDescZone(p))
           /\ takeChunk(newDescZone(p)).freeChunksCount =
                 newDescZone(p).freeChunksCount - 1
<1>1. pageSize \in PageSizes /\ pageSize \in Nat /\ p \in Nat
  BY InvMeans DEF Inv, StartInv, RunsOK
<1>2. /\ zoneDescChunkSize \in ChunkSizes /\ zoneDescChunkSize < pageSize
      /\ zoneIdx(zoneDescChunkSize) = zoneDescIdx /\ zoneDescIdx \in ZoneIdx
      /\ pageSize \div zoneDescChunkSize \in Nat
      /\ pageSize \div zoneDescChunkSize >= 2
  BY <1>1, DescChunkSize, DescZoneSize
<1>3. PICK new : new = newZone(p, pageSize, zoneDescChunkSize) OBVIOUS
<1>4. /\ new.page = p /\ new.chunkSize = zoneDescChunkSize /\ Full(new)
      /\ new.freeChunksCount = pageSize \div zoneDescChunkSize
  BY <1>3, NewZoneFields
<1>5. ZoneOK(new, pageSize)
  BY <1>1, <1>2, <1>3, NewZoneOK
<1>6. takeChunk(new).freeChunksCount = new.freeChunksCount - 1
  BY <1>1, <1>2, <1>4, <1>5, TakeChunkOK
<1> QED BY <1>1, <1>2, <1>3, <1>4, <1>5, <1>6 DEF newDescZone

\* The counters of descriptors before, as DescZoneIs counts from them.
LEMMA BeforeFacts ==
    ASSUME Inv, BeforeOK
    PROVE  /\ zoneDescIdx \in DOMAIN countersBefore
           /\ countersBefore[zoneDescIdx] \in Nat
           /\ zoneDescIdx \in DOMAIN listsBefore
           /\ listsBefore[zoneDescIdx] \in Seq(ZoneName)
           /\ ZonesOK(zonesBefore, pageSize) /\ pageSize \in Nat
<1>1. pageSize \in Nat
  BY InvMeans
<1>2. Consistent(zonesBefore, listsBefore, countersBefore, pageSize)
  BY DEF BeforeOK
<1>3. zoneDescIdx \in ZoneIdx
  BY DescChunkSize
<1>4. countersBefore[zoneDescIdx] \in Nat
  BY <1>1, <1>2, <1>3, CounterValue DEF Consistent
<1> QED BY <1>1, <1>2, <1>3, <1>4 DEF Consistent, ListsOK, CountsOK

LEMMA ZoneFailsFailure ==
    ASSUME Inv, FailureInv, ZoneFails, Pages!FreeRuns(1) = {}, UNCHANGED poolVars
    PROVE  FailureInv'
<1>1. /\ NeedsPage /\ phase = "allocate" /\ phase' = "undo" /\ chunk' = newDesc
      /\ zones' = [zones EXCEPT ![descZone] = takeChunk(zones[descZone])]
      /\ freeChunks' = [freeChunks EXCEPT ![zoneDescIdx] = freeChunks[zoneDescIdx] - 1]
      /\ UNCHANGED <<pageSize, zoneLists, argument, reply, before, areas, pagesHeld>>
  BY DEF ZoneFails, NeedsPage, poolVars
<1>2. BeforeOK /\ reply = NoReply /\ Initialized
  BY <1>1, BeforePage DEF FailureInv
<1>3. BeforeOK'
  BY <1>1, <1>2, BeforeKept
<1>4. Pages!FreeRuns(1)' = {}
  BY <1>1, SameRuns
<1>5. /\ zonesBefore' = zonesBefore /\ listsBefore' = listsBefore
      /\ countersBefore' = countersBefore
  BY <1>1 DEF zonesBefore, listsBefore, countersBefore
<1>6. ASSUME ~DescZoneAdded PROVE UndoBefore'
  <2>1. /\ zones = zonesBefore /\ zoneLists = listsBefore /\ freeChunks = countersBefore
        /\ newDesc = firstChunk(zonesBefore[descZone])
        /\ descZone \in DOMAIN zonesBefore /\ HasDescriptor(descZone)
    BY <1>1, <1>6, FirstDescriptor
  <2>2. PICK y : y = descZone OBVIOUS
  <2>3. HasDescriptor(y)' /\ DescriptorTaken(y)'
    BY <1>1, <2>1, <2>2, DescriptorTakenNext
  <2>4. y \in DOMAIN zonesBefore' /\ chunk' = firstChunk(zonesBefore'[y])
    BY <1>1, <1>5, <2>1, <2>2
  <2> QED BY <1>4, <2>3, <2>4 DEF UndoBefore, firstChunk
<1>7. ASSUME DescZoneAdded PROVE UndoBefore'
  <2>1. TwoPages /\ \E y \in DOMAIN zonesBefore : \E p \in UNION areas :
                       HasDescriptor(y) /\ DescZoneIs(y, newDescZone(p))
    BY <1>1, <1>7 DEF FailureInv, AllocateBefore
  <2>2. PICK y \in DOMAIN zonesBefore, p \in UNION areas :
                HasDescriptor(y) /\ DescZoneIs(y, newDescZone(p))
    BY <2>1
  <2>3. PICK d, new : d = firstChunk(zonesBefore[y]) /\ new = newDescZone(p)
    OBVIOUS
  <2>4. /\ d \in Nat \ DOMAIN zonesBefore
        /\ zones = with(withoutDescriptor(y), d, new)
        /\ zoneLists = [listsBefore EXCEPT ![zoneDescIdx] =
                           <<d>> \o listsBefore[zoneDescIdx]]
        /\ freeChunks = [countersBefore EXCEPT ![zoneDescIdx] =
                            countersBefore[zoneDescIdx] - 1 + new.freeChunksCount]
    BY <2>2, <2>3 DEF HasDescriptor, DescZoneIs
  <2>5. /\ Full(new) /\ new.freeChunksCount \in Nat
        /\ takeChunk(new).freeChunksCount = new.freeChunksCount - 1
    BY <1>2, <2>3, NewDescZone
  <2>6. descZone = d /\ zones[d] = new
    <3>1. d # initialZone
      BY <2>4, NamesAssumption
    <3>2. d \in Names(zones) /\ zones[d] = new
      BY <2>4, <3>1 DEF with, Names
    <3> QED BY <1>1, <2>5, <3>2, DescZoneFound
  <2>7. zones' = with(withoutDescriptor(y), d, takeChunk(new))
    BY <1>1, <2>4, <2>6, WithTwice
  <2>8. chunk' = firstChunk(new)
    BY <1>1, <2>6 DEF newDesc
  <2>9. freeChunks' = [countersBefore EXCEPT ![zoneDescIdx] =
                          countersBefore[zoneDescIdx] - 1 + takeChunk(new).freeChunksCount]
    <3>1. zoneDescIdx \in DOMAIN countersBefore /\ countersBefore[zoneDescIdx] \in Nat
      BY <1>2, BeforeFacts
    <3>2. PICK v : v = countersBefore[zoneDescIdx] - 1 + takeChunk(new).freeChunksCount
      OBVIOUS
    <3>3. freeChunks[zoneDescIdx] - 1 = v
      BY <2>4, <2>5, <3>1, <3>2
    <3>4. freeChunks' = [countersBefore EXCEPT ![zoneDescIdx] = v]
      BY <1>1, <2>4, <3>3
    <3> QED BY <3>2, <3>4
  <2>10. HasDescriptor(y)'
    BY <1>5, <2>2 DEF HasDescriptor, ZonesOf
  <2>11. newDescZone(p)' = new /\ withoutDescriptor(y)' = withoutDescriptor(y)
    BY <1>1, <1>5, <2>3 DEF newDescZone, withoutDescriptor
  <2>12. DescZoneIs(y, takeChunk(newDescZone(p)))'
    BY <1>1, <1>5, <2>3, <2>4, <2>7, <2>9, <2>11 DEF DescZoneIs
  <2>13. chunk' = firstChunk(newDescZone(p)')
    BY <2>8, <2>11
  <2>14. TwoPages' /\ p \in UNION areas' /\ y \in DOMAIN zonesBefore'
    BY <1>1, <1>5, <2>1, TwoPagesNext
  <2> QED BY <1>4, <2>10, <2>12, <2>13, <2>14 DEF UndoBefore, takeChunk, firstChunk
<1>8. UndoBefore'
  BY <1>6, <1>7
<1> QED BY <1>1, <1>2, <1>3, <1>8, ReplyFields
        DEF FailureInv, AllocateBefore, RefusedOnlyWithoutPages

\* The inner allocateZone, and the frame it returns to.
LEMMA InnerFrame ==
    ASSUME Inv, NeedsPage, Len(frames) # 1
    PROVE  /\ ~DescZoneAdded /\ Len(frames) = 2
           /\ frame.chunkSize = zoneDescChunkSize
           /\ frames' = Tail(frames) /\ phase' = "allocate" => DescZoneAdded'
<1>1. /\ FramesOK
      /\ frame.chunkSize = zoneDescChunkSize /\ Len(frames) = 2
      /\ Tail(frames) = <<Frame(chunkSize(argument), TRUE)>>
  BY BeforePage, FrameSize
<1>2. \A a, b : Len(<<a>>) = 1 /\ Head(<<a, b>>) = a /\ Head(<<a>>) = a
  OBVIOUS
<1>3. frames = <<Frame(zoneDescChunkSize, FALSE), Frame(chunkSize(argument), TRUE)>>
  BY <1>1, <1>2 DEF FramesOK
<1>4. frame = Frame(zoneDescChunkSize, FALSE)
  BY <1>2, <1>3 DEF frame
<1>5. ~DescZoneAdded
  BY <1>4 DEF DescZoneAdded, Frame
<1>6. ASSUME frames' = Tail(frames), phase' = "allocate" PROVE DescZoneAdded'
  <2>1. frames' = <<Frame(chunkSize(argument), TRUE)>>
    BY <1>1, <1>6
  <2>2. frame' = Frame(chunkSize(argument), TRUE) /\ frames' # <<>>
    BY <1>2, <2>1 DEF frame
  <2> QED BY <1>6, <2>2 DEF DescZoneAdded, Frame
<1> QED BY <1>1, <1>5, <1>6

LEMMA AddDescZoneFailure ==
    ASSUME Inv, FailureInv, NEW p \in Pages!FreeRuns(1), AddZone(p), UNCHANGED areas,
           Len(frames) # 1
    PROVE  FailureInv'
<1>1. NeedsPage /\ phase = "allocate"
  BY DEF AddZone, NeedsPage
<1>2. /\ ~DescZoneAdded /\ Len(frames) = 2 /\ frame.chunkSize = zoneDescChunkSize
      /\ zoneDescIdx = zoneIdx(frame.chunkSize)
  BY <1>1, InnerFrame, DescChunkSize
<1>3. PICK y, new : y = descZone /\ new = newDescZone(p)
  OBVIOUS
<1>4. PICK d : d = newDesc OBVIOUS
<1>5. /\ zones' = with([zones EXCEPT ![y] = takeChunk(zones[y])], d, new)
      /\ zoneLists' = [zoneLists EXCEPT ![zoneDescIdx] = <<d>> \o zoneLists[zoneDescIdx]]
      /\ freeChunks' = [[freeChunks EXCEPT ![zoneDescIdx] = freeChunks[zoneDescIdx] - 1]
                           EXCEPT ![zoneDescIdx] = @ + new.freeChunksCount]
      /\ frames' = Tail(frames)
      /\ UNCHANGED <<pageSize, phase, chunk, argument, reply, before>>
  BY <1>2, <1>3, <1>4 DEF AddZone, newDescZone
<1>6. /\ zones = zonesBefore /\ zoneLists = listsBefore /\ freeChunks = countersBefore
      /\ d = firstChunk(zonesBefore[y])
      /\ y \in DOMAIN zonesBefore /\ HasDescriptor(y)
      /\ zonesBefore' = zonesBefore /\ listsBefore' = listsBefore
      /\ countersBefore' = countersBefore
  BY <1>1, <1>2, <1>3, <1>4, <1>5, FirstDescriptor
<1>7. BeforeOK /\ reply = NoReply /\ TwoPages
  BY <1>1, <1>2 DEF FailureInv, AllocateBefore
<1>8. BeforeOK' /\ TwoPages'
  BY <1>5, <1>7, BeforeKept, TwoPagesNext
<1>9. DescZoneAdded'
  BY <1>1, <1>2, <1>5, InnerFrame
<1>10. HasDescriptor(y)'
  BY <1>6 DEF HasDescriptor, ZonesOf
<1>11. newDescZone(p)' = new /\ withoutDescriptor(y)' = withoutDescriptor(y)
  BY <1>3, <1>5, <1>6 DEF newDescZone, withoutDescriptor
<1>12. freeChunks' = [countersBefore EXCEPT ![zoneDescIdx] =
                         countersBefore[zoneDescIdx] - 1 + new.freeChunksCount]
  <2>1. zoneDescIdx \in DOMAIN countersBefore
    BY <1>7, BeforeFacts
  <2> QED BY <1>5, <1>6, <2>1
<1>13. DescZoneIs(y, newDescZone(p))'
  <2>1. zones' = with(withoutDescriptor(y), d, new)
    BY <1>5, <1>6 DEF withoutDescriptor
  <2> QED BY <1>5, <1>6, <1>11, <1>12, <2>1 DEF DescZoneIs
<1>14. p \in UNION areas' /\ y \in DOMAIN zonesBefore'
  BY <1>6 DEF Pages!FreeRuns
<1>15. AllocateBefore'
  BY <1>8, <1>9, <1>10, <1>13, <1>14 DEF AllocateBefore
<1> QED BY <1>1, <1>5, <1>7, <1>8, <1>15, ReplyFields
        DEF FailureInv, UndoBefore, RefusedOnlyWithoutPages

\* The outermost allocateZone returns a chunk.
LEMMA ZoneReturnsChunk ==
    ASSUME Inv', NEW p, AddZone(p), Len(frames) = 1
    PROVE  reply'.result # nullptr /\ phase' = "idle"
<1>1. PICK c : c = firstChunk(newZone(p, pageSize, frame.chunkSize))
  OBVIOUS
<1>2. held' = with(held, c, argument) /\ reply' = AllocReply(argument, c) /\ phase' = "idle"
  BY <1>1 DEF AddZone, Returns, NoCall
<1>3. c \in DOMAIN held' /\ DOMAIN held' \subseteq Nat
  BY <1>2 DEF with, Inv, StartInv
<1>4. c # nullptr
  BY <1>3, NamesAssumption
<1> QED BY <1>2, <1>4, ReplyFields

\* The descriptor's zone takes it back, and the zones are what they were.
LEMMA UndoDescriptor ==
    ASSUME Inv, Deallocating, BeforeOK, NEW y \in DOMAIN zonesBefore, HasDescriptor(y),
           DescriptorTaken(y), chunk = firstChunk(zonesBefore[y])
    PROVE  /\ findZone(chunk) = y
           /\ givenBack(y) = zonesBefore
           /\ ~isEmptied(y)
           /\ zoneIdx(zones[y].chunkSize) = zoneDescIdx
<1>1. PICK old, new : old = zonesBefore[y] /\ new = takeChunk(old)
  OBVIOUS
<1>2. /\ pageSize \in Nat /\ ZonesOK(zones, pageSize) /\ ZonesOK(zonesBefore, pageSize)
  BY BeforeFacts, WhileDeallocating
<1>3. ZoneOK(old, pageSize) /\ old.freeChunksCount > 0 /\ zoneIdx(old.chunkSize) = zoneDescIdx
  BY <1>1, <1>2 DEF ZonesOK, HasDescriptor, ZonesOf
<1>4. zones = [zonesBefore EXCEPT ![y] = new]
  BY <1>1 DEF DescriptorTaken, withoutDescriptor
<1>5. y \in DOMAIN zones /\ zones[y] = new
  BY <1>4
<1>6. /\ new.chunkSize = old.chunkSize /\ new.chunksCount = old.chunksCount
      /\ ChunksIn(new, pageSize) = ChunksIn(old, pageSize)
      /\ firstChunk(old) \in FreeIn(old)
  BY <1>1, <1>2, <1>3, TakeChunkOK
<1>7. chunk \in ChunksIn(zones[y], pageSize)
  BY <1>1, <1>3, <1>5, <1>6 DEF ZoneOK
<1>8. findZone(chunk) = y
  BY <1>2, <1>5, <1>7, FindZone
<1>9. giveChunk(new, chunk) = old
  BY <1>1, <1>2, <1>3, GiveAfterTake
<1>10. givenBack(y) = [zonesBefore EXCEPT ![y] = old]
  BY <1>4, <1>5, <1>9 DEF givenBack
<1>11. givenBack(y) = zonesBefore
  <2>1. zonesBefore = [z \in DOMAIN zonesBefore |-> zonesBefore[z]]
    BY DEF BeforeOK
  <2> QED BY <1>1, <1>10, <2>1
<1>12. ~isEmptied(y)
  <2>1. y # initialZone => ~Full(old)
    BY <1>1 DEF BeforeOK
  <2> QED BY <1>1, <1>5, <1>6, <1>11, <2>1 DEF isEmptied, Full
<1> QED BY <1>3, <1>5, <1>6, <1>8, <1>11, <1>12

\* The zone of descriptors that was added takes its last chunk back.
LEMMA UndoDescZone ==
    ASSUME Inv, Deallocating, BeforeOK, NEW y \in DOMAIN zonesBefore, HasDescriptor(y),
           NEW p \in UNION areas, DescZoneIs(y, takeChunk(newDescZone(p))),
           chunk = firstChunk(newDescZone(p)),
           NEW d, d = firstChunk(zonesBefore[y])
    PROVE  /\ findZone(chunk) = d /\ d \in DOMAIN zones
           /\ zones[d] = takeChunk(newDescZone(p))
           /\ givenBack(d)[d] = newDescZone(p)
           /\ isEmptied(d)
           /\ zones[d].page = p
           /\ zoneIdx(zones[d].chunkSize) = zoneDescIdx
           /\ without(zones, d) = withoutDescriptor(y)
<1>1. PICK new, used : new = newDescZone(p) /\ used = takeChunk(new)
  OBVIOUS
<1>2. /\ pageSize \in Nat /\ ZonesOK(zones, pageSize) /\ Initialized
  BY WhileDeallocating
<1>3. /\ ZoneOK(new, pageSize) /\ new.page = p /\ zoneIdx(new.chunkSize) = zoneDescIdx
      /\ new.freeChunksCount >= 2 /\ new.freeChunksCount \in Nat /\ Full(new)
  BY <1>1, <1>2, NewDescZone
<1>4. d \in Nat \ DOMAIN zonesBefore /\ d # initialZone
  BY NamesAssumption DEF HasDescriptor
<1>5. zones = with(withoutDescriptor(y), d, used)
  BY <1>1 DEF DescZoneIs
<1>6. d \in DOMAIN zones /\ zones[d] = used
  BY <1>5 DEF with
<1>7. /\ used.chunkSize = new.chunkSize /\ used.chunksCount = new.chunksCount
      /\ used.page = new.page
      /\ ChunksIn(used, pageSize) = ChunksIn(new, pageSize)
      /\ firstChunk(new) \in FreeIn(new)
  BY <1>1, <1>2, <1>3, TakeChunkOK
<1>8. chunk \in ChunksIn(zones[d], pageSize)
  BY <1>1, <1>3, <1>6, <1>7 DEF ZoneOK
<1>9. findZone(chunk) = d
  BY <1>2, <1>6, <1>8, FindZone
<1>10. giveChunk(used, chunk) = new
  BY <1>1, <1>2, <1>3, GiveAfterTake
<1>11. givenBack(d)[d] = new
  BY <1>6, <1>10 DEF givenBack
<1>12. isEmptied(d)
  BY <1>3, <1>4, <1>6, <1>7, <1>11 DEF isEmptied, Full
<1>13. without(zones, d) = withoutDescriptor(y)
  <2>1. PICK f : f = withoutDescriptor(y) OBVIOUS
  <2>2. f = [z \in DOMAIN f |-> f[z]] /\ DOMAIN f = DOMAIN zonesBefore
    BY <2>1 DEF withoutDescriptor
  <2> QED BY <1>4, <1>5, <2>1, <2>2, WithWithout
<1> QED BY <1>1, <1>3, <1>6, <1>7, <1>9, <1>11, <1>12, <1>13

\* The page of that zone is the only one that is free afterwards.
LEMMA OnePageFree ==
    ASSUME RunsOK, NEW p \in DOMAIN pagesHeld, pagesHeld[p] = 1,
           Pages!FreeRuns(1) = {}, giveRun(p), UNCHANGED areas
    PROVE  Pages!FreeRuns(1)' \subseteq {p}
<1>1. SUFFICES ASSUME NEW q \in Pages!FreeRuns(1)', q # p PROVE FALSE
  OBVIOUS
<1>2. PICK area \in areas : q \in area /\ Pages!Run(q, 1) \subseteq area \ Pages!Taken'
  BY <1>1 DEF Pages!FreeRuns, Pages!Run
<1>3. q \in Nat /\ p \in Nat
  BY <1>2 DEF RunsOK
<1>4. Pages!Run(q, 1) = {q} /\ Pages!Run(p, 1) = {p}
  BY <1>3 DEF Pages!Run
<1>5. q \notin Pages!Taken
  <2>1. SUFFICES ASSUME NEW g \in DOMAIN pagesHeld, q \in Pages!Run(g, pagesHeld[g])
                 PROVE  FALSE
    BY DEF Pages!Taken
  <2>2. g # p
    BY <1>1, <1>4, <2>1
  <2>3. g \in DOMAIN pagesHeld' /\ pagesHeld'[g] = pagesHeld[g]
    BY <2>2 DEF giveRun, without
  <2>4. q \in Pages!Taken'
    BY <2>1, <2>3 DEF Pages!Taken, Pages!Run
  <2> QED BY <1>2, <1>4, <2>4
<1>6. q \in Pages!FreeRuns(1)
  BY <1>2, <1>4, <1>5 DEF Pages!FreeRuns
<1> QED BY <1>6

\* Where an undo is when deallocateChunk gives a chunk back.
LEMMA UndoGivesDescriptor ==
    ASSUME Inv, FailureInv, phase = "undo", ~isEmptied(findZone(chunk))
    PROVE  \E y \in DOMAIN zonesBefore :
              /\ HasDescriptor(y) /\ DescriptorTaken(y)
              /\ chunk = firstChunk(zonesBefore[y])
              /\ \/ Pages!FreeRuns(1) = {}
                 \/ TwoPages /\ \E p \in UNION areas : Pages!FreeRuns(1) \subseteq {p}
<1>1. Deallocating /\ BeforeOK /\ UndoBefore
  BY DEF Deallocating, FailureInv
<1>2. PICK y \in DOMAIN zonesBefore :
          /\ HasDescriptor(y)
          /\ \/ /\ DescriptorTaken(y)
                /\ chunk = firstChunk(zonesBefore[y])
                /\ \/ Pages!FreeRuns(1) = {}
                   \/ TwoPages /\ \E p \in UNION areas : Pages!FreeRuns(1) \subseteq {p}
             \/ \E p \in UNION areas :
                   /\ DescZoneIs(y, takeChunk(newDescZone(p)))
                   /\ chunk = firstChunk(newDescZone(p))
  BY <1>1 DEF UndoBefore
<1>3. ASSUME NEW p \in UNION areas, DescZoneIs(y, takeChunk(newDescZone(p))),
             chunk = firstChunk(newDescZone(p))
      PROVE  FALSE
  <2>1. PICK d : d = firstChunk(zonesBefore[y]) OBVIOUS
  <2>2. findZone(chunk) = d /\ isEmptied(d)
    BY <1>1, <1>2, <1>3, <2>1, UndoDescZone
  <2> QED BY <2>2
<1> QED BY <1>2, <1>3

\* The pages an allocate that fails had needed are missing.
LEMMA Refused ==
    ASSUME Inv, BeforeOK, FailureInv, phase = "undo", phase' = "idle",
           reply' = AllocReply(argument, nullptr), UNCHANGED <<pageSize, areas, pagesHeld>>,
           freeChunks' = countersBefore,
           \/ Pages!FreeRuns(1) = {}
           \/ TwoPages /\ \E p \in UNION areas : Pages!FreeRuns(1) \subseteq {p}
    PROVE  FailureInv'
<1>1. PICK size : size = argument OBVIOUS
<1>2. size \in Nat \ {0} /\ ~isForPages(size) /\ StartInv /\ Initialized
  BY <1>1, SizesAssumption DEF Inv, CallInv
<1>3. ~isForPages(size)'
  BY <1>2 DEF isForPages
<1>4. reply'.op = "allocate" /\ reply'.size = size
  BY <1>1, ReplyFields
<1>5. Pages!FreeRuns(1)' = Pages!FreeRuns(1)
  BY SameRuns
<1>6. PICK n : n = Cardinality(Pages!FreeRuns(1)) OBVIOUS
<1>7. CASE Pages!FreeRuns(1) = {}
  <2>1. n = 0
    BY <1>6, <1>7, FS_EmptySet
  <2>2. RefusedOnlyWithoutPages'
    BY <1>3, <1>4, <1>5, <1>6, <2>1 DEF RefusedOnlyWithoutPages, isForPages
  <2> QED BY <2>2 DEF FailureInv, AllocateBefore, UndoBefore
<1>8. CASE TwoPages /\ \E p \in UNION areas : Pages!FreeRuns(1) \subseteq {p}
  <2>1. PICK p : Pages!FreeRuns(1) \subseteq {p}
    BY <1>8
  <2>2. n <= 1
    <3>1. IsFiniteSet({p}) /\ Cardinality({p}) = 1
      BY FS_Singleton
    <3> QED BY <1>6, <2>1, <3>1, FS_Subset
  <2>3. n \in Nat
    BY <1>6, <2>1, FS_Singleton, FS_Subset, FS_CardinalityType
  <2>4. zoneIdx(chunkSize(size)) # zoneDescIdx
    BY <1>1, <1>2, <1>8, ChunkForSize, DescChunkSize, SameIndex DEF TwoPages
  <2>5. shouldAllocateZone(zoneDescIdx)'
    BY <1>8 DEF shouldAllocateZone, TwoPages
  <2>6. RefusedOnlyWithoutPages'
    BY <1>3, <1>4, <1>5, <1>6, <2>2, <2>3, <2>4, <2>5
       DEF RefusedOnlyWithoutPages, isForPages, shouldAllocateZone
  <2> QED BY <2>6 DEF FailureInv, AllocateBefore, UndoBefore
<1> QED BY <1>7, <1>8

\* The zones, the lists and the counters are what they were.
LEMMA Restored ==
    ASSUME Inv, BeforeOK, phase = "undo", NEW y \in DOMAIN zonesBefore, HasDescriptor(y),
           DescriptorTaken(y), chunk = firstChunk(zonesBefore[y]), GiveChunk
    PROVE  /\ zones' = zonesBefore /\ zoneLists' = listsBefore
           /\ freeChunks' = countersBefore
<1>1. Deallocating
  BY DEF Deallocating
<1>2. /\ findZone(chunk) = y /\ givenBack(y) = zonesBefore
      /\ zoneIdx(zones[y].chunkSize) = zoneDescIdx
  BY <1>1, UndoDescriptor
<1>3. /\ zones' = zonesBefore /\ zoneLists' = zoneLists
      /\ freeChunks' = [freeChunks EXCEPT ![zoneDescIdx] = freeChunks[zoneDescIdx] + 1]
  BY <1>2 DEF GiveChunk
<1>4. PICK F : F = countersBefore OBVIOUS
<1>5. F = [idx \in ZoneIdx |-> F[idx]] /\ zoneDescIdx \in ZoneIdx /\ F[zoneDescIdx] \in Nat
  BY <1>4, BeforeFacts, DescChunkSize DEF BeforeOK, Consistent, CountsOK
<1>6. freeChunks = [F EXCEPT ![zoneDescIdx] = F[zoneDescIdx] - 1]
  BY <1>4 DEF DescriptorTaken
<1>7. freeChunks[zoneDescIdx] + 1 = F[zoneDescIdx]
  BY <1>5, <1>6
<1>8. freeChunks' = [F EXCEPT ![zoneDescIdx] = F[zoneDescIdx]]
  BY <1>3, <1>6, <1>7
<1>9. freeChunks' = F
  BY <1>5, <1>8
<1> QED BY <1>3, <1>4, <1>9 DEF DescriptorTaken

\* An undo that returns has restored everything.
LEMMA UndoReturns ==
    ASSUME Inv, FailureInv, phase = "undo", GiveChunk, UNCHANGED poolVars
    PROVE  <<zones', zoneLists', freeChunks'>> = before /\ FailureInv'
<1>1. /\ ~isEmptied(findZone(chunk)) /\ phase' = "idle"
      /\ reply' = AllocReply(argument, nullptr)
      /\ UNCHANGED <<pageSize, areas, pagesHeld>>
  BY DEF GiveChunk, DeallocateReturns, Returns, NoCall, poolVars
<1>2. BeforeOK
  BY DEF FailureInv
<1>3. PICK y \in DOMAIN zonesBefore :
          /\ HasDescriptor(y) /\ DescriptorTaken(y)
          /\ chunk = firstChunk(zonesBefore[y])
          /\ \/ Pages!FreeRuns(1) = {}
             \/ TwoPages /\ \E p \in UNION areas : Pages!FreeRuns(1) \subseteq {p}
  BY <1>1, UndoGivesDescriptor
<1>4. /\ zones' = zonesBefore /\ zoneLists' = listsBefore
      /\ freeChunks' = countersBefore
  BY <1>2, <1>3, Restored
<1>5. before = <<zonesBefore, listsBefore, countersBefore>>
  BY <1>2 DEF BeforeOK
<1>6. FailureInv'
  BY <1>1, <1>2, <1>3, <1>4, Refused
<1> QED BY <1>4, <1>5, <1>6

\* An undo that removes the zone of descriptors goes on with its descriptor.
LEMMA UndoRemoves ==
    ASSUME Inv, FailureInv, phase = "undo", RemoveZone,
           giveRun(zones[findZone(chunk)].page), UNCHANGED areas
    PROVE  UndoBefore'
<1>1. Deallocating /\ BeforeOK /\ UndoBefore
  BY DEF Deallocating, FailureInv
<1>2. PICK y \in DOMAIN zonesBefore :
          /\ HasDescriptor(y)
          /\ \/ DescriptorTaken(y) /\ chunk = firstChunk(zonesBefore[y])
             \/ /\ TwoPages
                /\ Pages!FreeRuns(1) = {}
                /\ \E p \in UNION areas :
                      /\ DescZoneIs(y, takeChunk(newDescZone(p)))
                      /\ chunk = firstChunk(newDescZone(p))
  BY <1>1 DEF FailureInv, UndoBefore
<1>3. isEmptied(findZone(chunk))
  BY DEF RemoveZone, EmptiesZone
<1>4. ~(DescriptorTaken(y) /\ chunk = firstChunk(zonesBefore[y]))
  BY <1>1, <1>2, <1>3, UndoDescriptor
<1>5. PICK p \in UNION areas :
          /\ DescZoneIs(y, takeChunk(newDescZone(p)))
          /\ chunk = firstChunk(newDescZone(p))
  BY <1>2, <1>4
<1>6. PICK d, new : d = firstChunk(zonesBefore[y]) /\ new = newDescZone(p)
  OBVIOUS
<1>7. /\ findZone(chunk) = d /\ d \in DOMAIN zones /\ zones[d].page = p
      /\ zones[d] = takeChunk(new) /\ givenBack(d)[d] = new
      /\ zoneIdx(zones[d].chunkSize) = zoneDescIdx
      /\ without(zones, d) = withoutDescriptor(y)
  BY <1>1, <1>2, <1>5, <1>6, UndoDescZone
<1>8. /\ zones' = withoutDescriptor(y) /\ chunk' = d
      /\ zoneLists' = [zoneLists EXCEPT ![zoneDescIdx] =
                          RemoveFirst(zoneLists[zoneDescIdx], d)]
      /\ freeChunks' = [freeChunks EXCEPT ![zoneDescIdx] =
                           freeChunks[zoneDescIdx] + 1 - new.freeChunksCount]
      /\ UNCHANGED <<pageSize, argument, before>>
  BY <1>7 DEF RemoveZone
<1>9. PICK F, L : F = countersBefore /\ L = listsBefore OBVIOUS
<1>10. /\ zoneDescIdx \in DOMAIN F /\ F[zoneDescIdx] \in Nat
       /\ zoneDescIdx \in DOMAIN L /\ L[zoneDescIdx] \in Seq(ZoneName)
       /\ L = [idx \in DOMAIN L |-> L[idx]]
  BY <1>1, <1>9, BeforeFacts DEF BeforeOK, Consistent, ListsOK
<1>11. zoneLists' = L
  <2>1. d \in ZoneName
    BY <1>2, <1>6 DEF HasDescriptor, ZoneName
  <2>2. RemoveFirst(<<d>> \o L[zoneDescIdx], d) = L[zoneDescIdx]
    BY <1>10, <2>1, RemoveFirstOfCons
  <2>3. zoneLists = [L EXCEPT ![zoneDescIdx] = <<d>> \o L[zoneDescIdx]]
    BY <1>5, <1>6, <1>9 DEF DescZoneIs
  <2>4. zoneLists' = [L EXCEPT ![zoneDescIdx] = L[zoneDescIdx]]
    BY <1>8, <1>10, <2>2, <2>3
  <2> QED BY <1>10, <2>4
<1>12. freeChunks' = [F EXCEPT ![zoneDescIdx] = F[zoneDescIdx] - 1]
  <2>1. /\ new.freeChunksCount \in Nat
        /\ takeChunk(new).freeChunksCount = new.freeChunksCount - 1
    BY <1>1, <1>6, WhileDeallocating, NewDescZone
  <2>2. freeChunks = [F EXCEPT ![zoneDescIdx] =
                         F[zoneDescIdx] - 1 + takeChunk(new).freeChunksCount]
    BY <1>5, <1>6, <1>9 DEF DescZoneIs
  <2>3. freeChunks[zoneDescIdx] + 1 - new.freeChunksCount = F[zoneDescIdx] - 1
    BY <1>10, <2>1, <2>2
  <2> QED BY <1>8, <2>2, <2>3
<1>13. /\ zonesBefore' = zonesBefore /\ listsBefore' = L /\ countersBefore' = F
  BY <1>8, <1>9 DEF zonesBefore, listsBefore, countersBefore
<1>14. HasDescriptor(y)' /\ DescriptorTaken(y)'
  <2>1. HasDescriptor(y)'
    BY <1>2, <1>13 DEF HasDescriptor, ZonesOf
  <2>2. DescriptorTaken(y)'
    BY <1>8, <1>11, <1>12, <1>13 DEF DescriptorTaken, withoutDescriptor
  <2> QED BY <2>1, <2>2
<1>15. TwoPages'
  BY <1>2, <1>4, <1>8, TwoPagesNext
<1>16. Pages!FreeRuns(1)' \subseteq {p}
  <2>1. RunsOK /\ PagesOwned
    BY DEF Inv
  <2>2. p \in DOMAIN pagesHeld /\ pagesHeld[p] = 1
    BY <1>7, <2>1 DEF PagesOwned
  <2>3. Pages!FreeRuns(1) = {} /\ giveRun(p)
    BY <1>2, <1>4, <1>7
  <2> QED BY <2>1, <2>2, <2>3, OnePageFree
<1>17. y \in DOMAIN zonesBefore' /\ chunk' = firstChunk(zonesBefore'[y])
  BY <1>6, <1>8, <1>13
<1> QED BY <1>14, <1>15, <1>16, <1>17 DEF UndoBefore, firstChunk

LEMMA RemoveZoneFailure ==
    ASSUME Inv, FailureInv, RemoveZone, giveRun(zones[findZone(chunk)].page),
           UNCHANGED areas
    PROVE  FailureInv'
<1>1. /\ phase \in {"undo", "release"}
      /\ UNCHANGED <<pageSize, phase, argument, reply, before>>
  BY DEF RemoveZone, EmptiesZone, Deallocating
<1>2. reply = NoReply /\ (phase = "undo" => BeforeOK)
  BY <1>1 DEF FailureInv
<1>3. phase = "undo" => BeforeOK' /\ UndoBefore'
  BY <1>1, <1>2, BeforeKept, UndoRemoves
<1> QED BY <1>1, <1>2, <1>3, ReplyFields
        DEF FailureInv, AllocateBefore, UndoBefore, RefusedOnlyWithoutPages

LEMMA ReleaseReturns ==
    ASSUME phase # "undo", DeallocateReturns PROVE FailureInv'
<1>1. phase' = "idle" /\ reply'.op = "release"
  BY ReplyFields DEF DeallocateReturns, Returns, NoCall
<1> QED BY <1>1, NotRefused

\* The chunk that an undo gives back has a zone.
LEMMA UndoFindsZone ==
    ASSUME Inv, NotInZones PROVE phase # "undo"
<1>1. Deallocating /\ findZone(chunk) = nullptr
  BY DEF NotInZones
<1>2. \A z \in DOMAIN zones : chunk \notin ChunksIn(zones[z], pageSize)
  BY <1>1, WhileDeallocating, FindZone
<1>3. ~InDescZone(chunk)
  BY <1>2 DEF InDescZone, ZonesOf
<1>4. phase = "release"
  BY <1>1, <1>3, WhileDeallocating
<1> QED BY <1>4

LEMMA StepFailure == Inv /\ Inv' /\ FailureInv /\ Step => FailureInv'
<1> SUFFICES ASSUME Inv, Inv', FailureInv, Step PROVE FailureInv'
  OBVIOUS
<1>1. CASE AllocateDescZone
  BY <1>1, AllocateDescZoneFailure
<1>2. CASE AllocateZone
  <2>1. CASE ZoneFails /\ Pages!FreeRuns(1) = {} /\ UNCHANGED pagesHeld
    BY <1>2, <2>1, ZoneFailsFailure DEF AllocateZone, poolVars
  <2>2. ASSUME NEW p \in Pages!FreeRuns(1), AddZone(p) PROVE FailureInv'
    <3>1. CASE Len(frames) # 1
      BY <1>2, <2>2, <3>1, AddDescZoneFailure DEF AllocateZone
    <3>2. CASE Len(frames) = 1
      BY <2>2, <3>2, ZoneReturnsChunk, NotRefused
    <3> QED BY <3>1, <3>2
  <2> QED BY <1>2, <2>1, <2>2 DEF AllocateZone
<1>3. CASE GiveChunk /\ UNCHANGED poolVars
  BY <1>3, UndoReturns, ReleaseReturns DEF GiveChunk
<1>4. CASE RemoveZone /\ giveRun(zones[findZone(chunk)].page) /\ UNCHANGED areas
  BY <1>4, RemoveZoneFailure
<1>5. CASE NotInZones
  BY <1>5, UndoFindsZone, ReleaseReturns DEF NotInZones
<1> QED BY <1>1, <1>2, <1>3, <1>4, <1>5 DEF Step

LEMMA StutterFailure == FailureInv /\ UNCHANGED vars => FailureInv'
<1> SUFFICES ASSUME FailureInv, UNCHANGED vars PROVE FailureInv'
  OBVIOUS
<1> USE DEF vars, zoneVars, callVars
<1>1. /\ zonesBefore' = zonesBefore /\ listsBefore' = listsBefore
      /\ countersBefore' = countersBefore
  BY DEF zonesBefore, listsBefore, countersBefore
<1>2. BeforeOK => BeforeOK'
  BY BeforeKept
<1>3. TwoPages => TwoPages'
  BY TwoPagesNext
<1>4. \A y : /\ HasDescriptor(y)' = HasDescriptor(y)
             /\ withoutDescriptor(y)' = withoutDescriptor(y)
  BY <1>1 DEF HasDescriptor, ZonesOf, withoutDescriptor
<1>5. \A p : newDescZone(p)' = newDescZone(p)
  BY DEF newDescZone
<1>6. \A y : DescriptorTaken(y)' = DescriptorTaken(y)
  BY <1>1, <1>4 DEF DescriptorTaken
<1>7. \A y, p : /\ DescZoneIs(y, newDescZone(p))' = DescZoneIs(y, newDescZone(p))
                /\ DescZoneIs(y, takeChunk(newDescZone(p)))' =
                      DescZoneIs(y, takeChunk(newDescZone(p)))
  BY <1>1, <1>4, <1>5 DEF DescZoneIs, takeChunk
<1>8. Pages!FreeRuns(1)' = Pages!FreeRuns(1)
  BY SameRuns
<1>9. AllocateBefore'
  BY <1>1, <1>3, <1>4, <1>7 DEF FailureInv, AllocateBefore, DescZoneAdded, frame
<1>10. UndoBefore'
  BY <1>1, <1>3, <1>4, <1>5, <1>6, <1>7, <1>8
     DEF FailureInv, UndoBefore, firstChunk
<1>11. RefusedOnlyWithoutPages'
  BY DEF FailureInv, RefusedOnlyWithoutPages, isForPages, shouldAllocateZone, pagesFor,
         Pages!FreeRuns, Pages!Taken, Pages!Run
<1> QED BY <1>2, <1>9, <1>10, <1>11 DEF FailureInv

LEMMA InitFailure == Init => ZonesFunction /\ FailureInv
<1> SUFFICES ASSUME Init PROVE ZonesFunction /\ FailureInv
  OBVIOUS
<1>1. phase = "idle" /\ reply = NoReply /\ zones = Nothing
  BY DEF Init, InitZones
<1>2. ZonesFunction
  BY <1>1 DEF ZonesFunction, Nothing
<1> QED BY <1>1, <1>2, ReplyFields
        DEF FailureInv, AllocateBefore, UndoBefore, RefusedOnlyWithoutPages

LEMMA ZonesFunctionAlways == Spec => []ZonesFunction
  BY InitFailure, ZonesFunctionStep, PTL DEF Spec

\* While allocateZone runs, and while what it did is undone, the state before
\* it can be restored.
THEOREM FailureCorrect == Spec => []FailureInv
<1>1. Init => Inv /\ ZonesFunction /\ FailureInv
  BY InitInv, InitFailure
<1>2. Inv /\ ZonesFunction /\ FailureInv /\ [Next]_vars
      => (Inv /\ ZonesFunction /\ FailureInv)'
  <2> SUFFICES ASSUME Inv, ZonesFunction, FailureInv, [Next]_vars
               PROVE  Inv' /\ ZonesFunction' /\ FailureInv'
    OBVIOUS
  <2>1. Inv' /\ ZonesFunction'
    BY CallKeepsInv, StepKeepsInv, StutterKeepsInv, ZonesFunctionStep DEF Next
  <2>2. FailureInv'
    BY <2>1, CallFailure, StepFailure, StutterFailure DEF Next
  <2> QED BY <2>1, <2>2
<1> QED BY <1>1, <1>2, PTL DEF Spec

\* allocate refuses a request only if the pages for it are missing.
THEOREM RefusedCorrect == Spec => []RefusedOnlyWithoutPages
<1>1. FailureInv => RefusedOnlyWithoutPages
  BY DEF FailureInv
<1> QED BY <1>1, FailureCorrect, PTL

\* A step that ends an allocateZone without a chunk restores the zones.
LEMMA FailureUndone ==
    ASSUME Inv, Inv', FailureInv, [Next]_vars,
           phase \in {"allocate", "undo"}, phase' = "idle", reply'.result = nullptr
    PROVE  <<zones', zoneLists', freeChunks'>> = before
<1>1. Step
  <2>1. phase' # phase /\ ~Idle
    BY DEF Idle
  <2>2. ~UNCHANGED vars
    BY <2>1 DEF vars, callVars
  <2>3. ~Call
    BY <2>1 DEF Call, Clear, InitPool, InitRejected, InitFails, InitSucceeds, AllocateRun,
                AllocateNothing, AllocateThrows, AllocateChunk, AllocateStart, isForZones,
                Release, ReleaseNull
  <2> QED BY <2>2, <2>3 DEF Next
<1>2. GiveChunk /\ UNCHANGED poolVars /\ phase = "undo"
  <2>1. ~AllocateDescZone /\ ~ZoneFails /\ ~RemoveZone
    BY DEF AllocateDescZone, ZoneFails, RemoveZone, EmptiesZone, Deallocating
  <2>2. ASSUME NEW p \in Pages!FreeRuns(1), AddZone(p) PROVE FALSE
    <3>1. CASE Len(frames) = 1
      BY <2>2, <3>1, ZoneReturnsChunk
    <3>2. CASE Len(frames) # 1
      BY <2>2, <3>2 DEF AddZone, NeedsPage
    <3> QED BY <3>1, <3>2
  <2>3. ~NotInZones
    BY UndoFindsZone DEF NotInZones, Deallocating
  <2>4. ~AllocateZone
    BY <2>1, <2>2 DEF AllocateZone
  <2>5. GiveChunk /\ UNCHANGED poolVars
    BY <1>1, <2>1, <2>3, <2>4 DEF Step
  <2> QED BY <2>5 DEF GiveChunk, Deallocating
<1> QED BY <1>2, UndoReturns

\* An allocateZone that fails leaves the zones, the lists and the counters as
\* they were.
THEOREM UndoneCorrect == Spec => FailedAllocationUndone
<1>1. Inv /\ Inv' /\ FailureInv /\ [Next]_vars =>
         [(phase \in {"allocate", "undo"} /\ phase' = "idle" /\ reply'.result = nullptr)
             => <<zones', zoneLists', freeChunks'>> = before]_vars
  BY FailureUndone
<1> QED BY <1>1, InvCorrect, FailureCorrect, PTL DEF Spec, FailedAllocationUndone

-----------------------------------------------------------------------------
(* The blocks that clients hold.                                           *)

LEMMA ProductOrder ==
    ASSUME NEW x \in Nat, NEW y \in Nat, x <= y, NEW b \in Nat
    PROVE  x * b \in Nat /\ y * b \in Nat /\ x * b <= y * b
<1>1. x * b \in Nat /\ y * b \in Nat
  BY NatProduct
<1>2. CASE x < y
  BY <1>1, <1>2, Multiples
<1>3. CASE x = y
  BY <1>1, <1>3
<1> QED BY <1>1, <1>2, <1>3

\* A block lies in a run of pages: in one of the chunks of a zone, or at the
\* start of pages that no zone has.
HeldAt(b, p) ==
    /\ p \in DOMAIN pagesHeld
    /\ p * pageSize <= b
    /\ b + held[b] <= p * pageSize + pagesHeld[p] * pageSize
    /\ \/ \E z \in DOMAIN zones :
             /\ zones[z].page = p
             /\ b \in ChunksIn(zones[z], pageSize) /\ held[b] <= zones[z].chunkSize
       \/ b = p * pageSize /\ \A z \in DOMAIN zones : zones[z].page # p

LEMMA HeldPlace ==
    ASSUME Inv, NEW b \in DOMAIN held
    PROVE  /\ Initialized /\ pageSize \in Nat \ {0}
           /\ b \in Nat /\ held[b] \in Nat \ {0}
           /\ \E p : HeldAt(b, p)
<1>1. /\ StartInv /\ OwnersOK /\ RunsOK
      /\ ZonesOK(zones, pageSize) /\ DOMAIN pagesHeld \subseteq Nat
      /\ PageOwners(zones, pageSize, held, Deallocated, pagesHeld)
  BY InvMeans DEF Inv
<1>2. /\ Initialized /\ pageSize \in Nat \ {0} /\ b \in Nat /\ held[b] \in Nat \ {0}
  BY <1>1, PageSizeType, SizesAssumption DEF StartInv
<1>3. PICK ps, n : ps = pageSize /\ n = held[b] OBVIOUS
<1>4. \A z \in DOMAIN zones : Shape(zones[z], ps)
  BY <1>1, <1>2, <1>3, OKShape DEF ZonesOK
<1>5. ASSUME NEW z \in DOMAIN zones, b \in ChunksIn(zones[z], ps)
      PROVE  HeldAt(b, zones[z].page)
  <2>1. PICK p, s : p = zones[z].page /\ s = zones[z].chunkSize OBVIOUS
  <2>2. p * ps <= b /\ b + s <= p * ps + ps /\ p \in Nat /\ s \in Nat
    BY <1>4, <1>5, <2>1, ChunkPlace DEF Shape
  <2>3. n <= s
    BY <1>1, <1>3, <1>5, <2>1 DEF OwnersOK
  <2>4. p \in DOMAIN pagesHeld /\ pagesHeld[p] = 1
    BY <1>1, <2>1 DEF PageOwners
  <2>5. p * ps \in Nat
    BY <1>2, <1>3, <2>2, NatProduct
  <2>6. b + n <= p * ps + 1 * ps
    BY <1>2, <1>3, <2>2, <2>3, <2>5
  <2> QED BY <1>3, <1>5, <2>1, <2>2, <2>3, <2>4, <2>6 DEF HeldAt
<1>6. ASSUME \A z \in DOMAIN zones : b \notin ChunksIn(zones[z], ps)
      PROVE  \E p : HeldAt(b, p)
  <2>1. PICK p \in DOMAIN pagesHeld : b = p * ps
    BY <1>1, <1>3, <1>6 DEF PageOwners
  <2>2. \A z \in DOMAIN zones : zones[z].page # p
    BY <1>4, <1>6, <2>1, PageStart
  <2>3. b \notin Deallocated
    BY <1>1 DEF OwnersOK
  <2>4. n <= pagesHeld[p] * ps
    BY <1>1, <1>3, <2>1, <2>2, <2>3 DEF PageOwners
  <2>5. pagesHeld[p] * ps \in Nat
    BY <1>1, <1>2, <1>3, NatProduct DEF RunsOK
  <2>6. b + n <= p * ps + pagesHeld[p] * ps
    BY <1>2, <1>3, <2>1, <2>4, <2>5
  <2> QED BY <1>2, <1>3, <2>1, <2>2, <2>6 DEF HeldAt
<1> QED BY <1>2, <1>3, <1>5, <1>6

\* What lies in a run of pages lies on one of them.
LEMMA PageOfRun ==
    ASSUME NEW ps \in Nat \ {0}, NEW p \in Nat, NEW n \in Nat, NEW x \in Nat,
           p * ps <= x, x < p * ps + n * ps
    PROVE  /\ x \div ps \in Pages!Run(p, n)
           /\ (x \div ps) * ps <= x /\ x < (x \div ps) * ps + ps
<1>1. PICK q : q = x \div ps OBVIOUS
<1>2. q \in Nat /\ q * ps <= x /\ x < (q + 1) * ps /\ q * ps \in Nat
  BY <1>1, Division, NatProduct
<1>3. x < q * ps + ps
  BY <1>2
<1>4. p <= q
  <2>1. SUFFICES ASSUME q < p PROVE FALSE
    BY <1>2
  <2>2. q * ps + ps <= p * ps /\ p * ps \in Nat
    BY <1>2, <2>1, Multiples, NatProduct
  <2> QED BY <1>2, <1>3, <2>2
<1>5. q < p + n
  <2>1. SUFFICES ASSUME p + n <= q PROVE FALSE
    BY <1>2
  <2>2. (p + n) * ps <= q * ps
    BY <1>2, <2>1, ProductOrder
  <2>3. (p + n) * ps = p * ps + n * ps
    OBVIOUS
  <2>4. p * ps \in Nat /\ n * ps \in Nat
    BY NatProduct
  <2> QED BY <1>2, <2>2, <2>3, <2>4
<1> QED BY <1>1, <1>2, <1>3, <1>4, <1>5 DEF Pages!Run

\* Two runs do not share a page, so they lie one after the other.
LEMMA RunsInOrder ==
    ASSUME RunsOK, NEW p \in DOMAIN pagesHeld, NEW q \in DOMAIN pagesHeld, p # q,
           NEW ps \in Nat
    PROVE  \/ p * ps + pagesHeld[p] * ps <= q * ps
           \/ q * ps + pagesHeld[q] * ps <= p * ps
<1>1. PICK m, n : m = pagesHeld[p] /\ n = pagesHeld[q] OBVIOUS
<1>2. p \in Nat /\ q \in Nat /\ m \in Nat \ {0} /\ n \in Nat \ {0}
  BY <1>1, RunHeld DEF RunsOK
<1>3. Pages!Run(p, m) \cap Pages!Run(q, n) = {}
  BY <1>1 DEF RunsOK
<1>4. p + m <= q \/ q + n <= p
  <2>1. p \in Pages!Run(p, m) /\ q \in Pages!Run(q, n)
    BY <1>2 DEF Pages!Run
  <2>2. p \notin Pages!Run(q, n) /\ q \notin Pages!Run(p, m)
    BY <1>3, <2>1
  <2> QED BY <1>2, <2>2 DEF Pages!Run
<1>5. (p + m) * ps = p * ps + m * ps /\ (q + n) * ps = q * ps + n * ps
  BY <1>2
<1>6. CASE p + m <= q
  BY <1>1, <1>2, <1>5, <1>6, ProductOrder
<1>7. CASE q + n <= p
  BY <1>1, <1>2, <1>5, <1>7, ProductOrder
<1> QED BY <1>4, <1>6, <1>7

\* Every block lies in the memory of the library, and no two overlap.
BlocksApart ==
    /\ \A b \in DOMAIN held : ClientHeap!Block(b, held[b]) \subseteq memory
    /\ \A b, c \in DOMAIN held :
          b # c => b + held[b] <= c \/ c + held[c] <= b

LEMMA BlockInMemory ==
    ASSUME Inv, NEW b \in DOMAIN held
    PROVE  ClientHeap!Block(b, held[b]) \subseteq memory
<1>1. /\ pageSize \in Nat \ {0} /\ b \in Nat /\ held[b] \in Nat \ {0} /\ RunsOK
  BY HeldPlace DEF Inv
<1>2. PICK p : HeldAt(b, p)
  BY HeldPlace
<1>3. PICK ps, n, m : ps = pageSize /\ n = held[b] /\ m = pagesHeld[p]
  OBVIOUS
<1>4. /\ p \in DOMAIN pagesHeld /\ p \in Nat /\ m \in Nat
      /\ p * ps <= b /\ b + n <= p * ps + m * ps
  BY <1>1, <1>2, <1>3, RunHeld DEF HeldAt, RunsOK
<1>5. p * ps \in Nat /\ m * ps \in Nat
  BY <1>1, <1>3, <1>4, NatProduct
<1>6. ASSUME NEW x \in ClientHeap!Block(b, n) PROVE x \in memory
  <2>1. x \in Nat /\ p * ps <= x /\ x < p * ps + m * ps
    BY <1>1, <1>3, <1>4, <1>5, <1>6 DEF ClientHeap!Block
  <2>2. PICK q : q = x \div ps OBVIOUS
  <2>3. q \in Pages!Run(p, m) /\ q * ps <= x /\ x < q * ps + ps
    BY <1>1, <1>3, <1>4, <2>1, <2>2, PageOfRun
  <2>4. q \in UNION areas /\ q \in Nat
    BY <1>1, <1>3, <1>4, <2>3 DEF RunsOK
  <2>5. q * ps \in Nat
    BY <1>1, <1>3, <2>4, NatProduct
  <2>6. x \in (q * ps)..(q * ps + ps - 1)
    BY <1>1, <1>3, <2>1, <2>3, <2>5
  <2> QED BY <1>3, <2>4, <2>6 DEF memory, pageAddr
<1> QED BY <1>3, <1>6

LEMMA TwoBlocks ==
    ASSUME Inv, NEW b \in DOMAIN held, NEW c \in DOMAIN held, b # c
    PROVE  b + held[b] <= c \/ c + held[c] <= b
<1>1. /\ pageSize \in Nat \ {0} /\ RunsOK /\ ZonesOK(zones, pageSize)
      /\ b \in Nat /\ held[b] \in Nat \ {0} /\ c \in Nat /\ held[c] \in Nat \ {0}
  BY HeldPlace, InvMeans DEF Inv
<1>2. PICK p, q : HeldAt(b, p) /\ HeldAt(c, q)
  BY HeldPlace
<1>3. PICK ps : ps = pageSize OBVIOUS
<1>4. p \in DOMAIN pagesHeld /\ q \in DOMAIN pagesHeld /\ p \in Nat /\ q \in Nat
  BY <1>1, <1>2, RunHeld DEF HeldAt
<1>5. CASE p # q
  <2>1. /\ p * ps <= b /\ b + held[b] <= p * ps + pagesHeld[p] * ps
        /\ q * ps <= c /\ c + held[c] <= q * ps + pagesHeld[q] * ps
    BY <1>2, <1>3 DEF HeldAt
  <2>2. \/ p * ps + pagesHeld[p] * ps <= q * ps
        \/ q * ps + pagesHeld[q] * ps <= p * ps
    BY <1>1, <1>3, <1>4, <1>5, RunsInOrder
  <2>3. pagesHeld[p] \in Nat /\ pagesHeld[q] \in Nat
    BY <1>1, <1>4 DEF RunsOK
  <2>4. /\ p * ps \in Nat /\ q * ps \in Nat
        /\ pagesHeld[p] * ps \in Nat /\ pagesHeld[q] * ps \in Nat
    BY <1>1, <1>3, <1>4, <2>3, NatProduct
  <2>5. PICK x, y, u, v : /\ x = p * ps /\ y = q * ps
                          /\ u = pagesHeld[p] * ps /\ v = pagesHeld[q] * ps
    OBVIOUS
  <2>6. CASE x + u <= y
    BY <1>1, <2>1, <2>4, <2>5, <2>6
  <2>7. CASE y + v <= x
    BY <1>1, <2>1, <2>4, <2>5, <2>7
  <2> QED BY <2>2, <2>5, <2>6, <2>7
<1>6. CASE p = q
  <2>1. PICK y \in DOMAIN zones : /\ zones[y].page = p
                                  /\ b \in ChunksIn(zones[y], ps)
                                  /\ held[b] <= zones[y].chunkSize
    BY <1>2, <1>3, <1>6 DEF HeldAt
  <2>2. PICK z \in DOMAIN zones : /\ zones[z].page = p
                                  /\ c \in ChunksIn(zones[z], ps)
                                  /\ held[c] <= zones[z].chunkSize
    BY <1>2, <1>3, <1>6 DEF HeldAt
  <2>3. y = z
    BY <1>1, <2>1, <2>2 DEF ZonesOK
  <2>4. Shape(zones[y], ps)
    BY <1>1, <1>3, OKShape DEF ZonesOK
  <2>5. b + zones[y].chunkSize <= c \/ c + zones[y].chunkSize <= b
    BY <2>1, <2>2, <2>3, <2>4, ChunkSpacing
  <2>6. zones[y].chunkSize \in Nat
    BY <2>4 DEF Shape
  <2> QED BY <1>1, <2>1, <2>2, <2>3, <2>5, <2>6
<1> QED BY <1>5, <1>6

\* No block overlaps another, whatever the sizes of pages and of requests.
THEOREM BlocksCorrect == Spec => []BlocksApart
<1>1. Inv => BlocksApart
  BY BlockInMemory, TwoBlocks DEF BlocksApart
<1> QED BY <1>1, InvCorrect, PTL

-----------------------------------------------------------------------------
(* The refinement of Heap.                                                 *)

\* No block lies on a page that is free.
LEMMA FreePageHasNoBlock ==
    ASSUME Inv, NEW n \in Nat \ {0}, NEW p \in Pages!FreeRuns(n), NEW b \in DOMAIN held
    PROVE  ~(p * pageSize <= b /\ b < p * pageSize + pageSize)
<1>1. /\ pageSize \in Nat \ {0} /\ b \in Nat /\ held[b] \in Nat \ {0} /\ RunsOK
  BY HeldPlace DEF Inv
<1>2. PICK q : HeldAt(b, q)
  BY HeldPlace
<1>3. PICK ps, m, size : ps = pageSize /\ m = pagesHeld[q] /\ size = held[b]
  OBVIOUS
<1>4. /\ q \in DOMAIN pagesHeld /\ q \in Nat /\ m \in Nat
      /\ q * ps <= b /\ b + size <= q * ps + m * ps
  BY <1>1, <1>2, <1>3, RunHeld DEF HeldAt, RunsOK
<1>5. q * ps \in Nat /\ m * ps \in Nat
  BY <1>1, <1>3, <1>4, NatProduct
<1>6. b < q * ps + m * ps
  BY <1>1, <1>3, <1>4, <1>5
<1>7. PICK r : r = b \div ps OBVIOUS
<1>8. r \in Pages!Run(q, m) /\ r * ps <= b /\ b < r * ps + ps
  BY <1>1, <1>3, <1>4, <1>6, <1>7, PageOfRun
<1>9. p \in Nat /\ Pages!Run(p, n) \cap Pages!Run(q, m) = {}
  BY <1>1, <1>3, <1>4, FreeRun
<1>10. p \in Pages!Run(p, n) /\ r \in Nat
  BY <1>4, <1>8, <1>9 DEF Pages!Run
<1>11. r # p
  BY <1>8, <1>9, <1>10
<1> QED BY <1>1, <1>3, <1>8, <1>9, <1>10, <1>11, OnOnePage

LEMMA TakesBlock ==
    ASSUME BlocksApart', NEW size \in Nat \ {0}, NEW addr, addr \notin DOMAIN held,
           held' = with(held, addr, size), reply' = AllocReply(size, addr),
           UNCHANGED <<pageSize, areas>>
    PROVE  ClientHeap!Take(size)
<1>1. memory' = memory
  BY DEF memory, pageAddr
<1>2. /\ reply'.op = "allocate" /\ reply'.size = size /\ reply'.result = addr
  BY ReplyFields
<1>3. /\ addr \in DOMAIN held' /\ held'[addr] = size
      /\ \A b \in DOMAIN held : b \in DOMAIN held' /\ held'[b] = held[b] /\ b # addr
  BY DEF with
<1>4. ClientHeap!Block(addr, size) \subseteq memory
  BY <1>1, <1>3 DEF BlocksApart, ClientHeap!Block
<1>5. \A b \in DOMAIN held : addr + size <= b \/ b + held[b] <= addr
  BY <1>3 DEF BlocksApart
<1> QED BY <1>1, <1>2, <1>4, <1>5 DEF ClientHeap!Take, with

LEMMA AllocateRunTakes ==
    ASSUME Inv, BlocksApart', NEW size \in AllocSizes, AllocateRun(size)
    PROVE  ClientHeap!Refuse(size) \/ ClientHeap!Take(size)
<1>1. size \in Nat \ {0} /\ Initialized /\ UNCHANGED <<pageSize, areas>>
  BY SizesAssumption DEF AllocateRun, AllocatePages
<1>2. UNCHANGED memory
  BY <1>1 DEF memory, pageAddr
<1>3. CASE AllocatePages(size, nullptr)
  <2>1. held' = held /\ reply' = AllocReply(size, nullptr)
    BY <1>3 DEF AllocatePages, Returns
  <2> QED BY <1>2, <2>1, ReplyFields DEF ClientHeap!Refuse
<1>4. ASSUME NEW p \in Pages!FreeRuns(pagesFor(size)), AllocatePages(size, p)
      PROVE  ClientHeap!Take(size)
  <2>1. pageSize \in Nat \ {0} /\ pagesFor(size) \in Nat \ {0} /\ RunsOK
    BY <1>1, PageSizeType, PagesForSize DEF Inv
  <2>2. p \in Nat /\ p # nullptr
    BY <2>1, FreeRun, NamesAssumption
  <2>3. PICK addr : addr = p * pageSize OBVIOUS
  <2>4. held' = with(held, addr, size) /\ reply' = AllocReply(size, addr)
    BY <1>4, <2>2, <2>3 DEF AllocatePages, Returns, pageAddr
  <2>5. addr \notin DOMAIN held
    <3>1. addr \in Nat /\ addr <= addr /\ addr < addr + pageSize
      BY <2>1, <2>2, <2>3, NatProduct
    <3> QED BY <2>1, <2>3, <3>1, FreePageHasNoBlock
  <2> QED BY <1>1, <2>4, <2>5, TakesBlock
<1> QED BY <1>3, <1>4 DEF AllocateRun

LEMMA AllocateChunkTakes ==
    ASSUME Inv, BlocksApart', NEW size \in AllocSizes, AllocateChunk(size),
           UNCHANGED poolVars
    PROVE  ClientHeap!Take(size)
<1>1. PICK idx, z : idx = zoneIdx(chunkSize(size)) /\ z = getFreeZone(idx)
  OBVIOUS
<1>2. /\ Idle /\ Initialized /\ idx \in ZoneIdx /\ ~shouldAllocateZone(idx)
      /\ size \in Nat \ {0}
  BY <1>1, SizesAssumption DEF AllocateChunk, isForZones
<1>3. z # nullptr
  BY <1>1, <1>2, ChunkLeft
<1>4. PICK c : c = firstChunk(zones[z]) OBVIOUS
<1>5. /\ held' = with(held, c, size) /\ reply' = AllocReply(size, c)
      /\ UNCHANGED <<pageSize, areas>>
  BY <1>1, <1>3, <1>4 DEF AllocateChunk, Returns, poolVars
<1>6. c \notin DOMAIN held
  <2>1. /\ Memory(zones, zoneLists, freeChunks, pageSize, held, {}, pagesHeld)
        /\ pageSize \in Nat /\ ZonesOK(zones, pageSize) /\ ListsOK(zones, zoneLists)
    BY <1>2, IdleMemory, InvMeans DEF Consistent
  <2>2. z \in DOMAIN zones /\ zones[z].freeChunksCount > 0
    BY <1>1, <1>2, <1>3, <2>1, GetFreeZone DEF ZonesOf
  <2>3. PICK Z1, F1 : TakesChunk(zones, freeChunks, z, Z1, F1)
    BY <2>2, ExceptUpdates DEF TakesChunk
  <2> QED BY <1>4, <2>1, <2>2, <2>3, TakenChunk
<1> QED BY <1>2, <1>5, <1>6, TakesBlock

LEMMA LastZoneTakes ==
    ASSUME Inv, BlocksApart', NEW p \in Pages!FreeRuns(1), AddZone(p), UNCHANGED areas,
           Len(frames) = 1
    PROVE  argument \in AllocSizes /\ ClientHeap!Take(argument)
<1>1. NeedsPage
  BY DEF AddZone
<1>2. PICK new, c : new = newZone(p, pageSize, frame.chunkSize) /\ c = firstChunk(new)
  OBVIOUS
<1>3. /\ held' = with(held, c, argument) /\ reply' = AllocReply(argument, c)
      /\ UNCHANGED <<pageSize, areas>>
  BY <1>2 DEF AddZone, Returns
<1>4. /\ argument \in AllocSizes /\ argument \in Nat \ {0}
      /\ pageSize \in Nat \ {0} /\ RunsOK
      /\ frame.chunkSize \in ChunkSizes /\ frame.chunkSize < pageSize
      /\ zoneIdx(frame.chunkSize) \in ZoneIdx
  BY <1>1, BeforePage, FrameSize
<1>5. p \in Nat
  BY <1>4, FreeRun
<1>6. /\ ZoneOK(new, pageSize) /\ FreeIn(new) = ChunksIn(new, pageSize) /\ new.page = p
  BY <1>2, <1>4, <1>5, NewZoneOK, NewZoneFields
<1>7. new.freeChunksCount > 0
  <2>1. new.chunksCount \in Nat \ {0} /\ Full(new)
    BY <1>2, <1>6, NewZoneFields DEF ZoneOK, ZoneType
  <2> QED BY <2>1 DEF Full
<1>8. c \in ChunksIn(new, pageSize)
  BY <1>2, <1>4, <1>6, <1>7, TakeChunkOK
<1>9. c \in Nat /\ p * pageSize <= c /\ c < p * pageSize + pageSize
  <2>1. Shape(new, pageSize)
    BY <1>4, <1>6, OKShape
  <2>2. /\ c \in Nat /\ p * pageSize <= c
        /\ c + new.chunkSize <= p * pageSize + pageSize
        /\ new.chunkSize \in Nat \ {0}
    BY <1>6, <1>8, <2>1, ChunkPlace DEF Shape
  <2>3. p * pageSize \in Nat
    BY <1>4, <1>5, NatProduct
  <2> QED BY <1>4, <2>2, <2>3
<1>10. c \notin DOMAIN held
  BY <1>9, FreePageHasNoBlock
<1> QED BY <1>3, <1>4, <1>10, TakesBlock

LEMMA DeallocationAnswers ==
    ASSUME Inv, Deallocating, DeallocateReturns, UNCHANGED <<pageSize, areas, held>>
    PROVE  ClientHeap!Next
<1>1. UNCHANGED memory
  BY DEF memory, pageAddr
<1>2. CASE phase = "undo"
  <2>1. argument \in AllocSizes /\ reply' = AllocReply(argument, nullptr)
    BY <1>2 DEF Inv, CallInv, DeallocateReturns, Returns
  <2>2. ClientHeap!Refuse(argument)
    BY <1>1, <2>1, ReplyFields DEF ClientHeap!Refuse
  <2> QED BY <2>1, <2>2 DEF ClientHeap!Next
<1>3. CASE phase # "undo"
  <2>1. reply'.op = "release"
    BY <1>3, ReplyFields DEF DeallocateReturns, Returns
  <2> QED BY <1>1, <2>1 DEF ClientHeap!Next, ClientHeap!Acknowledge
<1> QED BY <1>2, <1>3

LEMMA CallOfHeap ==
    ASSUME Inv, BlocksApart', Call PROVE ClientHeap!Next
<1>1. ClientHeap!Nothing = Nothing
  BY DEF ClientHeap!Nothing, Nothing
<1>2. UNCHANGED <<pageSize, areas>> => UNCHANGED memory
  BY DEF memory, pageAddr
<1>3. CASE Clear \/ InitRejected
  <2>1. held' = Nothing /\ reply'.op \in {"clear", "init"}
    BY <1>3, ReplyFields DEF Clear, InitRejected, clear, Returns
  <2> QED BY <1>1, <2>1 DEF ClientHeap!Next, ClientHeap!Reset
<1>4. ASSUME NEW size \in PageSizes, InitPool(size) PROVE ClientHeap!Next
  <2>1. InitFails(size) \/ \E p : InitSucceeds(size, p)
    BY <1>4 DEF InitPool
  <2>2. held' = Nothing /\ \E result : reply' = Reply("init", result)
    BY <2>1 DEF InitFails, InitSucceeds, clear, Returns
  <2>3. reply'.op = "init"
    BY <2>2, ReplyFields
  <2> QED BY <1>1, <2>2, <2>3 DEF ClientHeap!Next, ClientHeap!Reset
<1>5. ASSUME NEW size \in AllocSizes, AllocateRun(size) PROVE ClientHeap!Next
  BY <1>5, AllocateRunTakes DEF ClientHeap!Next
<1>6. ASSUME NEW size \in AllocSizes, AllocateNothing(size), UNCHANGED poolVars
      PROVE  ClientHeap!Next
  <2>1. UNCHANGED <<pageSize, areas, held>> /\ reply' = AllocReply(size, nullptr)
    BY <1>6 DEF AllocateNothing, Returns, poolVars
  <2>2. ClientHeap!Refuse(size)
    BY <1>2, <2>1, ReplyFields DEF ClientHeap!Refuse
  <2> QED BY <2>2 DEF ClientHeap!Next
<1>7. ASSUME NEW size \in AllocSizes, AllocateThrows(size), UNCHANGED poolVars
      PROVE  ClientHeap!Next
  <2>1. /\ UNCHANGED <<pageSize, areas, held>>
        /\ reply' = [op |-> "throws", size |-> size, result |-> nullptr]
    BY <1>7 DEF AllocateThrows, Returns, poolVars
  <2>2. ClientHeap!Refuse(size)
    BY <1>2, <2>1 DEF ClientHeap!Refuse
  <2> QED BY <2>2 DEF ClientHeap!Next
<1>8. ASSUME NEW size \in AllocSizes, AllocateChunk(size), UNCHANGED poolVars
      PROVE  ClientHeap!Next
  BY <1>8, AllocateChunkTakes DEF ClientHeap!Next
<1>9. ASSUME NEW size \in AllocSizes, AllocateStart(size), UNCHANGED poolVars
      PROVE  ClientHeap!Next
  <2>1. UNCHANGED <<pageSize, areas, held>> /\ reply'.op = "none"
    BY <1>9, ReplyFields DEF AllocateStart, poolVars
  <2> QED BY <1>2, <2>1 DEF ClientHeap!Next, ClientHeap!Acknowledge
<1>10. ASSUME NEW addr \in DOMAIN held, Release(addr), UNCHANGED poolVars
       PROVE  ClientHeap!Next
  <2>1. /\ UNCHANGED <<pageSize, areas>> /\ reply'.op = "none"
        /\ held' = without(held, addr)
    BY <1>10, ReplyFields DEF Release, poolVars
  <2>2. ClientHeap!GiveBack(addr)
    BY <1>2, <2>1 DEF ClientHeap!GiveBack, without
  <2> QED BY <2>2 DEF ClientHeap!Next
<1>11. CASE ReleaseNull /\ UNCHANGED poolVars
  <2>1. UNCHANGED <<pageSize, areas, held>> /\ reply'.op = "release"
    BY <1>11, ReplyFields DEF ReleaseNull, Returns, poolVars
  <2> QED BY <1>2, <2>1 DEF ClientHeap!Next, ClientHeap!Acknowledge
<1> QED BY <1>3, <1>4, <1>5, <1>6, <1>7, <1>8, <1>9, <1>10, <1>11 DEF Call

LEMMA StepOfHeap ==
    ASSUME Inv, BlocksApart', Step PROVE ClientHeap!Next \/ UNCHANGED ClientHeap!vars
<1>1. UNCHANGED <<pageSize, areas, held, reply>> => UNCHANGED ClientHeap!vars
  BY DEF memory, pageAddr, ClientHeap!vars
<1>2. CASE AllocateDescZone /\ UNCHANGED poolVars
  BY <1>1, <1>2 DEF AllocateDescZone, poolVars
<1>3. CASE AllocateZone
  <2>1. CASE ZoneFails
    BY <1>1, <1>3, <2>1 DEF ZoneFails, AllocateZone
  <2>2. ASSUME NEW p \in Pages!FreeRuns(1), AddZone(p)
        PROVE  ClientHeap!Next \/ UNCHANGED ClientHeap!vars
    <3>1. CASE Len(frames) = 1
      BY <1>3, <2>2, <3>1, LastZoneTakes DEF AllocateZone, ClientHeap!Next
    <3>2. CASE Len(frames) # 1
      <4>1. UNCHANGED <<pageSize, areas, held, reply>>
        BY <1>3, <2>2, <3>2 DEF AddZone, AllocateZone
      <4> QED BY <1>1, <4>1
    <3> QED BY <3>1, <3>2
  <2> QED BY <1>3, <2>1, <2>2 DEF AllocateZone
<1>4. CASE GiveChunk /\ UNCHANGED poolVars
  BY <1>4, DeallocationAnswers DEF GiveChunk, poolVars
<1>5. CASE RemoveZone /\ UNCHANGED areas
  BY <1>1, <1>5 DEF RemoveZone
<1>6. CASE NotInZones /\ ReleaseRun
  BY <1>6, DeallocationAnswers DEF NotInZones, ReleaseRun
<1> QED BY <1>2, <1>3, <1>4, <1>5, <1>6 DEF Step

LEMMA InitOfHeap == Init => ClientHeap!Init
<1> SUFFICES ASSUME Init PROVE ClientHeap!Init
  OBVIOUS
<1>1. held = Nothing /\ areas = {} /\ reply = NoReply
  BY DEF Init, InitZones
<1>2. memory = {}
  BY <1>1 DEF memory
<1>3. reply.result = nullptr
  BY <1>1 DEF NoReply, Reply
<1> QED BY <1>1, <1>2, <1>3 DEF ClientHeap!Init, ClientHeap!Nothing, Nothing

\* For its callers the library is a heap: blocks that are large enough, do
\* not overlap and stay until they are released.
THEOREM HeapCorrect == Spec => ImplementsHeap
<1>1. Init => ClientHeap!Init
  BY InitOfHeap
<1>2. Inv /\ BlocksApart' /\ [Next]_vars => [ClientHeap!Next]_ClientHeap!vars
  <2>1. UNCHANGED vars => UNCHANGED ClientHeap!vars
    BY DEF vars, memory, pageAddr, ClientHeap!vars
  <2> QED BY <2>1, CallOfHeap, StepOfHeap DEF Next
<1> QED BY <1>1, <1>2, InvCorrect, BlocksCorrect, PTL
        DEF Spec, ImplementsHeap, ClientHeap!Spec

-----------------------------------------------------------------------------
(* OriginInv: descriptors form no circle, and runs are as long as their    *)
(* sizes take.                                                             *)

NoCycleIn(Z, ps) ==
    \A S \in SUBSET Names(Z) :
        S # {} => \E d \in S : \A z \in S : d \notin ChunksIn(Z[z], ps)

MeasuredRun(Z, ps, h, R, p) ==
    (\A z \in DOMAIN Z : Z[z].page # p) /\ p * ps \in DOMAIN h
        => R[p] = (h[p * ps] + ps - 1) \div ps

LEMMA OriginOfState ==
    OriginInv <=> /\ NoCycleIn(zones, pageSize)
                  /\ \A p \in DOMAIN pagesHeld :
                        MeasuredRun(zones, pageSize, held, pagesHeld, p)
  BY DEF OriginInv, NoCycle, RunsMeasured, NoCycleIn, MeasuredRun, Names, Descriptors,
         pageAddr, pagesFor

LEMMA OriginOfNext ==
    OriginInv' <=> /\ NoCycleIn(zones', pageSize')
                   /\ \A p \in DOMAIN pagesHeld' :
                         MeasuredRun(zones', pageSize', held', pagesHeld', p)
  BY DEF OriginInv, NoCycle, RunsMeasured, NoCycleIn, MeasuredRun, Names, Descriptors,
         pageAddr, pagesFor

LEMMA CycleSame ==
    ASSUME NEW Z, NEW ps, NoCycleIn(Z, ps), NEW Z1, Names(Z1) \subseteq Names(Z),
           \A z \in Names(Z1) : ChunksIn(Z1[z], ps) = ChunksIn(Z[z], ps)
    PROVE  NoCycleIn(Z1, ps)
<1> SUFFICES ASSUME NEW S \in SUBSET Names(Z1), S # {}
             PROVE  \E d \in S : \A z \in S : d \notin ChunksIn(Z1[z], ps)
  BY DEF NoCycleIn
<1>1. PICK d \in S : \A z \in S : d \notin ChunksIn(Z[z], ps)
  BY DEF NoCycleIn
<1> QED BY <1>1

\* The new descriptor, and those of the other zones, are not in the new zone.
LEMMA CycleAdd ==
    ASSUME NEW Z, NEW ps, NoCycleIn(Z, ps), NEW d, NEW Z1,
           Names(Z1) = Names(Z) \cup {d},
           \A z \in Names(Z) \ {d} : ChunksIn(Z1[z], ps) = ChunksIn(Z[z], ps),
           \A y \in Names(Z1) : y \notin ChunksIn(Z1[d], ps)
    PROVE  NoCycleIn(Z1, ps)
<1> SUFFICES ASSUME NEW S \in SUBSET Names(Z1), S # {}
             PROVE  \E e \in S : \A z \in S : e \notin ChunksIn(Z1[z], ps)
  BY DEF NoCycleIn
<1>1. CASE S = {d}
  BY <1>1
<1>2. CASE S # {d}
  <2>1. S \ {d} \in SUBSET Names(Z) /\ S \ {d} # {}
    BY <1>2
  <2>2. PICK e \in S \ {d} : \A z \in S \ {d} : e \notin ChunksIn(Z[z], ps)
    BY <2>1 DEF NoCycleIn
  <2>3. \A z \in S \ {d} : e \notin ChunksIn(Z1[z], ps)
    BY <2>1, <2>2
  <2> QED BY <2>2, <2>3
<1> QED BY <1>1, <1>2

\* The run of p was measured before, and nothing about it has changed.
LEMMA MeasuredBefore ==
    ASSUME NEW Z, NEW ps, NEW h, NEW R, NEW Z1, NEW h1, NEW R1, NEW p,
           MeasuredRun(Z, ps, h, R, p), R1[p] = R[p],
           \A z \in DOMAIN Z : z \in DOMAIN Z1 /\ Z1[z].page = Z[z].page,
           p * ps \in DOMAIN h1 => p * ps \in DOMAIN h /\ h1[p * ps] = h[p * ps]
    PROVE  MeasuredRun(Z1, ps, h1, R1, p)
  BY DEF MeasuredRun

\* A step that takes or gives chunks, or only answers.
LEMMA ChunksOrigin ==
    ASSUME Inv, OriginInv, UNCHANGED <<pageSize, pagesHeld>>,
           DOMAIN zones' = DOMAIN zones,
           \A z \in DOMAIN zones : /\ zones'[z].page = zones[z].page
                                   /\ zones'[z].chunkSize = zones[z].chunkSize,
           \A b \in DOMAIN held' :
              \/ b \in DOMAIN held /\ held'[b] = held[b]
              \/ \E z \in DOMAIN zones : b \in ChunksIn(zones[z], pageSize)
    PROVE  OriginInv'
<1>1. NoCycleIn(zones', pageSize')
  <2>1. \A z \in DOMAIN zones : ChunksIn(zones'[z], pageSize) = ChunksIn(zones[z], pageSize)
    BY DEF ChunksIn
  <2> QED BY <2>1, OriginOfState, CycleSame DEF Names
<1>2. ASSUME NEW p \in DOMAIN pagesHeld
      PROVE  MeasuredRun(zones', pageSize', held', pagesHeld', p)
  <2>1. p \in Nat /\ pageSize \in Nat /\ ZonesOK(zones, pageSize)
    BY InvMeans
  <2>2. CASE p * pageSize \in DOMAIN held => held'[p * pageSize] = held[p * pageSize]
    <3>1. CASE \E z \in DOMAIN zones : zones[z].page = p
      BY <3>1 DEF MeasuredRun
    <3>2. CASE \A z \in DOMAIN zones : zones[z].page # p
      <4>1. \A z \in DOMAIN zones : p * pageSize \notin ChunksIn(zones[z], pageSize)
        BY <2>1, <3>2, RunStart
      <4>2. p * pageSize \in DOMAIN held' =>
               p * pageSize \in DOMAIN held /\ held'[p * pageSize] = held[p * pageSize]
        BY <4>1
      <4>3. MeasuredRun(zones, pageSize, held, pagesHeld, p)
        BY OriginOfState
      <4> QED BY <4>2, <4>3, MeasuredBefore
    <3> QED BY <3>1, <3>2
  <2>3. CASE \E z \in DOMAIN zones : p * pageSize \in ChunksIn(zones[z], pageSize)
    BY <2>1, <2>3, RunStart DEF MeasuredRun
  <2>4. CASE p * pageSize \notin DOMAIN held'
    BY <2>4 DEF MeasuredRun
  <2> QED BY <2>2, <2>3, <2>4
<1> QED BY <1>1, <1>2, OriginOfNext

\* Nothing is held, and at most the initial zone is there.
LEMMA EmptyOrigin ==
    ASSUME DOMAIN zones' \subseteq {initialZone}, held' = Nothing
    PROVE  OriginInv'
<1>1. Names(zones') = {} /\ DOMAIN held' = {}
  BY DEF Names, Nothing
<1> QED BY <1>1, OriginOfNext DEF NoCycleIn, MeasuredRun

LEMMA AllocateRunOrigin ==
    ASSUME Inv, OriginInv, NEW size \in AllocSizes, AllocateRun(size)
    PROVE  OriginInv'
<1>1. CASE AllocatePages(size, nullptr) /\ UNCHANGED pagesHeld
  BY <1>1, ChunksOrigin DEF AllocatePages, zoneVars
<1>2. ASSUME NEW p \in Pages!FreeRuns(pagesFor(size)), AllocatePages(size, p),
             takeRun(p, pagesFor(size))
      PROVE  OriginInv'
  <2>1. StartInv /\ RunsOK /\ Initialized /\ size \in Nat \ {0}
    BY <1>2, SizesAssumption DEF Inv, AllocatePages
  <2>2. pageSize \in Nat \ {0} /\ DOMAIN pagesHeld \subseteq Nat
    BY <2>1, PageSizeType, InvMeans
  <2>3. p \in Nat \ {0} /\ p \notin DOMAIN pagesHeld
    BY <1>2, <2>1, <2>2, PagesForSize, FreeRun
  <2>4. /\ held' = with(held, p * pageSize, size)
        /\ UNCHANGED <<pageSize, zones, zoneLists, freeChunks>>
    BY <1>2, <2>3, NamesAssumption DEF AllocatePages, pageAddr, zoneVars
  <2>5. pagesHeld' = with(pagesHeld, p, (size + pageSize - 1) \div pageSize)
    BY <1>2 DEF takeRun, pagesFor
  <2>6. NoCycleIn(zones', pageSize')
    BY <2>4, OriginOfState
  <2>7. ASSUME NEW q \in DOMAIN pagesHeld'
        PROVE  MeasuredRun(zones', pageSize', held', pagesHeld', q)
    <3>1. CASE q = p
      BY <2>4, <2>5, <3>1 DEF MeasuredRun, with
    <3>2. CASE q # p
      <4>1. q \in DOMAIN pagesHeld /\ pagesHeld'[q] = pagesHeld[q]
        BY <2>5, <3>2 DEF with
      <4>2. q * pageSize # p * pageSize
        BY <2>2, <2>3, <3>2, <4>1, SamePage
      <4>3. MeasuredRun(zones, pageSize, held, pagesHeld, q)
        BY <4>1, OriginOfState
      <4>4. q * pageSize \in DOMAIN held' =>
               q * pageSize \in DOMAIN held /\ held'[q * pageSize] = held[q * pageSize]
        BY <2>4, <4>2 DEF with
      <4> QED BY <2>4, <4>1, <4>3, <4>4, MeasuredBefore
    <3> QED BY <3>1, <3>2
  <2> QED BY <2>6, <2>7, OriginOfNext
<1> QED BY <1>1, <1>2 DEF AllocateRun

LEMMA AllocateChunkOrigin ==
    ASSUME Inv, OriginInv, NEW size \in AllocSizes, AllocateChunk(size),
           UNCHANGED poolVars
    PROVE  OriginInv'
<1>1. /\ Idle /\ Initialized /\ zoneIdx(chunkSize(size)) \in ZoneIdx
      /\ ~shouldAllocateZone(zoneIdx(chunkSize(size)))
  BY DEF AllocateChunk, isForZones
<1>2. PICK z : z = getFreeZone(zoneIdx(chunkSize(size)))
  OBVIOUS
<1>3. /\ pageSize \in Nat /\ ZonesOK(zones, pageSize) /\ ListsOK(zones, zoneLists)
  BY InvMeans DEF Consistent
<1>4. z # nullptr
  BY <1>1, <1>2, ChunkLeft
<1>5. z \in DOMAIN zones /\ zones[z].freeChunksCount > 0
  BY <1>1, <1>2, <1>3, <1>4, GetFreeZone DEF ZonesOf
<1>6. /\ ZoneOK(zones[z], pageSize)
      /\ FreeIn(zones[z]) \subseteq ChunksIn(zones[z], pageSize)
  BY <1>3, <1>5 DEF ZonesOK, ZoneOK
<1>7. /\ takeChunk(zones[z]).page = zones[z].page
      /\ takeChunk(zones[z]).chunkSize = zones[z].chunkSize
      /\ firstChunk(zones[z]) \in ChunksIn(zones[z], pageSize)
  BY <1>3, <1>5, <1>6, TakeChunkOK
<1>8. /\ zones' = [zones EXCEPT ![z] = takeChunk(zones[z])]
      /\ held' = with(held, firstChunk(zones[z]), size)
      /\ UNCHANGED <<pageSize, pagesHeld>>
  BY <1>2, <1>4 DEF AllocateChunk, poolVars
<1>9. \A b \in DOMAIN held' :
          \/ b \in DOMAIN held /\ held'[b] = held[b]
          \/ b \in ChunksIn(zones[z], pageSize)
  BY <1>7, <1>8 DEF with
<1>10. /\ DOMAIN zones' = DOMAIN zones
       /\ \A y \in DOMAIN zones : /\ zones'[y].page = zones[y].page
                                 /\ zones'[y].chunkSize = zones[y].chunkSize
  BY <1>5, <1>7, <1>8
<1> QED BY <1>5, <1>8, <1>9, <1>10, ChunksOrigin

LEMMA ZoneFailsOrigin ==
    ASSUME Inv, OriginInv, ZoneFails, UNCHANGED poolVars
    PROVE  OriginInv'
<1>1. NeedsPage
  BY DEF ZoneFails
<1>2. /\ descZone \in DOMAIN zones /\ zones[descZone].freeChunksCount > 0
      /\ pageSize \in Nat /\ ZoneOK(zones[descZone], pageSize)
  BY <1>1, DescZoneFound, InvMeans DEF ZonesOK
<1>3. /\ takeChunk(zones[descZone]).page = zones[descZone].page
      /\ takeChunk(zones[descZone]).chunkSize = zones[descZone].chunkSize
  BY <1>2, TakeChunkOK
<1>4. /\ zones' = [zones EXCEPT ![descZone] = takeChunk(zones[descZone])]
      /\ UNCHANGED <<pageSize, held, pagesHeld>>
  BY DEF ZoneFails, poolVars
<1>5. /\ DOMAIN zones' = DOMAIN zones
      /\ \A y \in DOMAIN zones : /\ zones'[y].page = zones[y].page
                                /\ zones'[y].chunkSize = zones[y].chunkSize
  BY <1>2, <1>3, <1>4
<1> QED BY <1>4, <1>5, ChunksOrigin

LEMMA GiveChunkOrigin ==
    ASSUME Inv, OriginInv, GiveChunk, UNCHANGED poolVars
    PROVE  OriginInv'
<1>1. PICK z : z = findZone(chunk)
  OBVIOUS
<1>2. /\ Deallocating /\ z # nullptr
      /\ zones' = givenBack(z) /\ UNCHANGED <<pageSize, held, pagesHeld>>
  BY <1>1 DEF GiveChunk, poolVars
<1>3. PICK F1 : F1 = [freeChunks EXCEPT ![zoneIdx(zones[z].chunkSize)] =
                         freeChunks[zoneIdx(zones[z].chunkSize)] + 1]
  OBVIOUS
<1>4. z \in DOMAIN zones
  BY <1>1, <1>2, WhileDeallocating, FindZone
<1>5. GivesChunk(zones, freeChunks, z, chunk, zones', F1)
  BY <1>2, <1>3, <1>4, GivenBack
<1>6. /\ DOMAIN zones' = DOMAIN zones
      /\ \A y \in DOMAIN zones : y # z => zones'[y] = zones[y]
      /\ zones'[z].page = zones[z].page
      /\ zones'[z].chunkSize = zones[z].chunkSize
  BY <1>1, <1>2, <1>5, ChunkGiven
<1>7. \A y \in DOMAIN zones : /\ zones'[y].page = zones[y].page
                             /\ zones'[y].chunkSize = zones[y].chunkSize
  BY <1>6
<1> QED BY <1>2, <1>6, <1>7, ChunksOrigin

LEMMA RemoveZoneOrigin ==
    ASSUME Inv, OriginInv, RemoveZone, giveRun(zones[findZone(chunk)].page)
    PROVE  OriginInv'
<1>1. PICK z : z = findZone(chunk)
  OBVIOUS
<1>2. /\ Deallocating /\ z # nullptr
      /\ zones' = without(zones, z) /\ pagesHeld' = without(pagesHeld, zones[z].page)
      /\ UNCHANGED <<pageSize, held>>
  BY <1>1 DEF RemoveZone, EmptiesZone, giveRun
<1>3. NoCycleIn(zones', pageSize')
  <2>1. Names(zones') \subseteq Names(zones)
        /\ \A y \in Names(zones') : zones'[y] = zones[y]
    BY <1>2 DEF Names, without
  <2> QED BY <1>2, <2>1, OriginOfState, CycleSame
<1>4. ASSUME NEW p \in DOMAIN pagesHeld'
      PROVE  MeasuredRun(zones', pageSize', held', pagesHeld', p)
  <2>1. p \in DOMAIN pagesHeld /\ p # zones[z].page /\ pagesHeld'[p] = pagesHeld[p]
    BY <1>2 DEF without
  <2>2. MeasuredRun(zones, pageSize, held, pagesHeld, p)
    BY <2>1, OriginOfState
  <2>3. (\A y \in DOMAIN zones' : zones'[y].page # p) =>
            \A y \in DOMAIN zones : zones[y].page # p
    BY <1>2, <2>1 DEF without
  <2> QED BY <1>2, <2>1, <2>2, <2>3 DEF MeasuredRun
<1> QED BY <1>3, <1>4, OriginOfNext

LEMMA NotInZonesOrigin ==
    ASSUME Inv, OriginInv, NotInZones, ReleaseRun
    PROVE  OriginInv'
<1>1. UNCHANGED <<pageSize, zones, held>>
  BY DEF NotInZones, zoneVars
<1>2. /\ DOMAIN pagesHeld' \subseteq DOMAIN pagesHeld
      /\ \A p \in DOMAIN pagesHeld' : pagesHeld'[p] = pagesHeld[p]
  BY DEF ReleaseRun, giveRun, without
<1>3. NoCycleIn(zones', pageSize')
  BY <1>1, OriginOfState
<1>4. ASSUME NEW p \in DOMAIN pagesHeld'
      PROVE  MeasuredRun(zones', pageSize', held', pagesHeld', p)
  BY <1>1, <1>2, OriginOfState DEF MeasuredRun
<1> QED BY <1>3, <1>4, OriginOfNext

LEMMA AddZoneOrigin ==
    ASSUME Inv, OriginInv, NEW p \in Pages!FreeRuns(1), AddZone(p), takeRun(p, 1)
    PROVE  OriginInv'
<1>1. NeedsPage
  BY DEF AddZone
<1>2. PICK d, new : d = newDesc /\ new = newZone(p, pageSize, frame.chunkSize)
  OBVIOUS
<1>3. PICK used : used = IF Len(frames) = 1 THEN takeChunk(new) ELSE new
  OBVIOUS
<1>4. PICK Z1 : Z1 = [zones EXCEPT ![descZone] = takeChunk(zones[descZone])]
  OBVIOUS
<1>5. /\ zones' = with(Z1, d, used) /\ UNCHANGED pageSize
      /\ \/ held' = held
         \/ held' = with(held, firstChunk(new), argument)
      /\ pagesHeld' = with(pagesHeld, p, 1)
  BY <1>2, <1>3, <1>4 DEF AddZone, takeRun
<1>6. /\ RunsOK /\ pageSize \in Nat \ {0} /\ DOMAIN pagesHeld \subseteq Nat
      /\ ZonesOK(zones, pageSize)
      /\ PageOwners(zones, pageSize, held, {}, pagesHeld)
      /\ Owners(zones, pageSize, held, {})
  BY <1>1, BeforePage DEF Memory, Consistent
<1>7. p \in Nat \ {0} /\ p \notin DOMAIN pagesHeld
  BY <1>6, FreeRun
<1>8. /\ descZone \in DOMAIN zones /\ zones[descZone].freeChunksCount > 0
      /\ ZoneOK(zones[descZone], pageSize)
  BY <1>1, <1>6, DescZoneFound DEF ZonesOK
<1>9. /\ takeChunk(zones[descZone]).page = zones[descZone].page
      /\ takeChunk(zones[descZone]).chunkSize = zones[descZone].chunkSize
  BY <1>6, <1>8, TakeChunkOK
<1>10. d \notin DOMAIN zones
  BY <1>1, <1>2, NewDescName
<1>11. /\ ZoneOK(new, pageSize) /\ new.page = p
       /\ new.freeChunksCount > 0
       /\ FreeIn(new) = ChunksIn(new, pageSize)
  <2>1. ZoneOK(new, pageSize) /\ new.page = p /\ FreeIn(new) = ChunksIn(new, pageSize)
    BY <1>1, <1>2, <1>6, <1>7, FrameSize, NewZoneFields, NewZoneOK
  <2>2. new.freeChunksCount = new.chunksCount
    BY <1>2, NewZoneFields
  <2>3. new.chunksCount \in Nat \ {0}
    BY <2>1 DEF ZoneOK, ZoneType
  <2> QED BY <2>1, <2>2, <2>3
<1>12. /\ takeChunk(new).page = p /\ takeChunk(new).chunkSize = new.chunkSize
       /\ firstChunk(new) \in ChunksIn(new, pageSize)
  BY <1>6, <1>11, TakeChunkOK
<1>13. used.page = p /\ used.chunkSize = new.chunkSize
  BY <1>3, <1>11, <1>12
<1>14. /\ DOMAIN zones' = DOMAIN zones \cup {d} /\ zones'[d] = used
       /\ \A y \in DOMAIN zones : /\ zones'[y].page = zones[y].page
                                 /\ zones'[y].chunkSize = zones[y].chunkSize
  <2>1. /\ DOMAIN Z1 = DOMAIN zones
        /\ \A y \in DOMAIN zones : /\ Z1[y].page = zones[y].page
                                  /\ Z1[y].chunkSize = zones[y].chunkSize
    BY <1>4, <1>8, <1>9
  <2> QED BY <1>5, <1>10, <2>1 DEF with
<1>15. \A y \in DOMAIN zones : zones[y].page # p
  BY <1>6, <1>7 DEF PageOwners
<1>16. NoCycleIn(zones', pageSize')
  <2>1. /\ \A y \in DOMAIN zones : ChunksIn(zones'[y], pageSize) = ChunksIn(zones[y], pageSize)
        /\ ChunksIn(zones'[d], pageSize) = ChunksIn(new, pageSize)
    BY <1>11, <1>13, <1>14 DEF ChunksIn
  <2>2. Shape(new, pageSize) /\ \A y \in DOMAIN zones : Shape(zones[y], pageSize)
    BY <1>6, <1>11, OKShape DEF ZonesOK
  <2>3. \A y \in DOMAIN zones : ChunksIn(zones[y], pageSize) \cap ChunksIn(new, pageSize) = {}
    BY <1>11, <1>15, <2>2, ChunksApart
  <2>4. firstChunk(zones[descZone]) \in ChunksIn(zones[descZone], pageSize)
    BY <1>6, <1>8, TakeChunkOK DEF ZoneOK
  <2>5. d \notin ChunksIn(new, pageSize)
    BY <1>2, <1>8, <2>3, <2>4 DEF newDesc
  <2>6. \A y \in Names(zones) : y \notin ChunksIn(new, pageSize)
    BY <1>6, <2>3 DEF Owners, InDescZoneOf, ZonesOf
  <2>7. CASE d = initialZone
    <3>1. Names(zones') \subseteq Names(zones)
      BY <1>14, <2>7 DEF Names
    <3> QED BY <1>5, <2>1, <3>1, OriginOfState, CycleSame DEF Names
  <2>8. CASE d # initialZone
    <3>1. Names(zones') = Names(zones) \cup {d}
      BY <1>14, <2>8 DEF Names
    <3> QED BY <1>5, <2>1, <2>5, <2>6, <3>1, OriginOfState, CycleAdd DEF Names
  <2> QED BY <2>7, <2>8
<1>17. ASSUME NEW q \in DOMAIN pagesHeld'
       PROVE  MeasuredRun(zones', pageSize', held', pagesHeld', q)
  <2>1. CASE q = p
    BY <1>13, <1>14, <2>1 DEF MeasuredRun
  <2>2. CASE q # p
    <3>1. q \in DOMAIN pagesHeld /\ pagesHeld'[q] = pagesHeld[q] /\ q \in Nat
      BY <1>5, <1>6, <2>2 DEF with
    <3>2. q * pageSize # firstChunk(new)
      <4>1. Shape(new, pageSize)
        BY <1>6, <1>11, OKShape
      <4> QED BY <1>11, <1>12, <2>2, <3>1, <4>1, PageStart
    <3>3. q * pageSize \in DOMAIN held' =>
             q * pageSize \in DOMAIN held /\ held'[q * pageSize] = held[q * pageSize]
      BY <1>5, <3>2 DEF with
    <3>4. MeasuredRun(zones, pageSize, held, pagesHeld, q)
      BY <3>1, OriginOfState
    <3> QED BY <1>5, <1>14, <3>1, <3>3, <3>4, MeasuredBefore
  <2> QED BY <2>1, <2>2
<1> QED BY <1>16, <1>17, OriginOfNext

LEMMA InitOrigin == Init => OriginInv
<1> SUFFICES ASSUME Init PROVE OriginInv
  OBVIOUS
<1>1. Names(zones) = {} /\ DOMAIN pagesHeld = {}
  BY DEF Init, InitZones, Nothing, Names
<1> QED BY <1>1, OriginOfState DEF NoCycleIn

LEMMA CallOrigin == Inv /\ OriginInv /\ Call => OriginInv'
<1> SUFFICES ASSUME Inv, OriginInv, Call PROVE OriginInv'
  OBVIOUS
<1>1. CASE (Clear \/ InitRejected) /\ NoPages
  BY <1>1, EmptyOrigin DEF Clear, InitRejected, clear, Nothing
<1>2. ASSUME NEW size \in PageSizes, InitPool(size) PROVE OriginInv'
  BY <1>2, EmptyOrigin DEF InitPool, InitFails, InitSucceeds, clear, Nothing
<1>3. ASSUME NEW size \in AllocSizes, AllocateRun(size) PROVE OriginInv'
  BY <1>3, AllocateRunOrigin
<1>4. ASSUME NEW size \in AllocSizes, AllocateChunk(size), UNCHANGED poolVars
      PROVE  OriginInv'
  BY <1>4, AllocateChunkOrigin
<1>5. ASSUME UNCHANGED <<pageSize, zones, held>>, UNCHANGED poolVars PROVE OriginInv'
  BY <1>5, ChunksOrigin DEF poolVars
<1>6. ASSUME NEW size \in AllocSizes,
             AllocateNothing(size) \/ AllocateThrows(size) \/ AllocateStart(size),
             UNCHANGED poolVars
      PROVE  OriginInv'
  BY <1>5, <1>6 DEF AllocateNothing, AllocateThrows, AllocateStart, zoneVars
<1>7. ASSUME NEW addr \in DOMAIN held, Release(addr), UNCHANGED poolVars PROVE OriginInv'
  BY <1>7, ChunksOrigin DEF Release, zoneVars, poolVars, without
<1>8. CASE ReleaseNull /\ UNCHANGED poolVars
  BY <1>5, <1>8 DEF ReleaseNull, zoneVars
<1> QED BY <1>1, <1>2, <1>3, <1>4, <1>6, <1>7, <1>8 DEF Call

LEMMA StepOrigin == Inv /\ OriginInv /\ Step => OriginInv'
<1> SUFFICES ASSUME Inv, OriginInv, Step PROVE OriginInv'
  OBVIOUS
<1>1. CASE AllocateDescZone /\ UNCHANGED poolVars
  BY <1>1, ChunksOrigin DEF AllocateDescZone, zoneVars, poolVars
<1>2. CASE AllocateZone
  BY <1>2, ZoneFailsOrigin, AddZoneOrigin DEF AllocateZone, poolVars
<1>3. CASE GiveChunk /\ UNCHANGED poolVars
  BY <1>3, GiveChunkOrigin
<1>4. CASE RemoveZone /\ giveRun(zones[findZone(chunk)].page) /\ UNCHANGED areas
  BY <1>4, RemoveZoneOrigin
<1>5. CASE NotInZones /\ ReleaseRun
  BY <1>5, NotInZonesOrigin
<1> QED BY <1>1, <1>2, <1>3, <1>4, <1>5 DEF Step

LEMMA NextOrigin == Inv /\ OriginInv /\ [Next]_vars => OriginInv'
<1>1. Inv /\ OriginInv /\ UNCHANGED vars => OriginInv'
  BY ChunksOrigin DEF vars, zoneVars
<1> QED BY <1>1, CallOrigin, StepOrigin DEF Next

\* Along the zones and the zones that hold their descriptors there is no circle,
\* and a client's run is as long as its size takes: what addZone, removeZone and
\* allocate leave behind in every memory.
THEOREM OriginCorrect == Spec => []OriginInv
<1>1. Init => Inv /\ OriginInv
  BY InitInv, InitOrigin
<1>2. Inv /\ OriginInv /\ [Next]_vars => OriginInv'
  BY NextOrigin
<1> QED BY <1>1, <1>2, InvCorrect, PTL DEF Spec

-----------------------------------------------------------------------------
(* A client that holds nothing leaves only the initial zone.               *)

\* A zone whose chunks are not all free has a descriptor among them.
DescriptorOf(z) == CHOOSE d \in Descriptors : d \in ChunksIn(zones[z], pageSize)

LEMMA HasDescriptors ==
    ASSUME Inv, Idle, held = Nothing, NEW z \in Descriptors
    PROVE  /\ DescriptorOf(z) \in Descriptors
           /\ DescriptorOf(z) \in ChunksIn(zones[z], pageSize)
<1>1. /\ pageSize \in Nat /\ ZonesOK(zones, pageSize)
      /\ Owners(zones, pageSize, held, {})
      /\ \A y \in Names(zones) : ~Full(zones[y])
  BY IdleMemory, InvMeans DEF Memory, Consistent
<1>2. z \in DOMAIN zones /\ z \in Names(zones) /\ ZoneOK(zones[z], pageSize)
  BY <1>1 DEF Descriptors, Names, ZonesOK
<1>3. FreeIn(zones[z]) # ChunksIn(zones[z], pageSize)
  BY <1>1, <1>2, FreeCounted
<1>4. FreeIn(zones[z]) \subseteq ChunksIn(zones[z], pageSize)
  BY <1>2 DEF ZoneOK
<1>5. PICK d \in ChunksIn(zones[z], pageSize) : d \notin FreeIn(zones[z])
  BY <1>3, <1>4
<1>6. UsedBy(zones, held, {}) = Descriptors
  BY DEF UsedBy, Names, Descriptors, Nothing
<1>7. d \in Descriptors
  BY <1>1, <1>2, <1>5, <1>6 DEF Owners, ZoneOwned
<1> QED BY <1>5, <1>7 DEF DescriptorOf

LEMMA OnlyInitialZone ==
    ASSUME Inv, OriginInv, Idle, held = Nothing
    PROVE  DOMAIN zones \subseteq {initialZone}
<1> SUFFICES ASSUME Descriptors # {} PROVE FALSE
  BY DEF Descriptors
<1>1. pageSize \in Nat /\ ZonesOK(zones, pageSize)
  BY InvMeans
<1>2. IsFiniteSet(Descriptors)
  BY <1>1, FS_Subset DEF Descriptors, ZonesOK
<1>3. PICK d \in Descriptors :
          \A z \in Descriptors : d \notin ChunksIn(zones[z], pageSize)
  BY DEF OriginInv, NoCycle
<1> DEFINE f == [z \in Descriptors |-> DescriptorOf(z)]
<1>4. \A y, z \in Descriptors : f[y] = f[z] => y = z
  <2> SUFFICES ASSUME NEW y \in Descriptors, NEW z \in Descriptors, f[y] = f[z], y # z
               PROVE  FALSE
    OBVIOUS
  <2>1. /\ f[y] \in ChunksIn(zones[y], pageSize)
        /\ f[y] \in ChunksIn(zones[z], pageSize)
    BY HasDescriptors
  <2>2. y \in DOMAIN zones /\ z \in DOMAIN zones
    BY DEF Descriptors
  <2> QED BY <1>1, <2>1, <2>2, ZonesApart
<1>5. \A z \in Descriptors : f[z] \in Descriptors \ {d}
  BY <1>3, HasDescriptors
<1> HIDE DEF f
<1>6. f \in [Descriptors -> Descriptors \ {d}]
  BY <1>5 DEF f
<1>7. /\ IsFiniteSet(Descriptors \ {d})
      /\ Cardinality(Descriptors \ {d}) = Cardinality(Descriptors) - 1
      /\ Cardinality(Descriptors) \in Nat
  BY <1>2, FS_RemoveElement, FS_CardinalityType
<1>8. Cardinality(Descriptors \ {d}) < Cardinality(Descriptors)
  BY <1>7
<1> QED BY <1>2, <1>4, <1>6, <1>7, <1>8, FS_PigeonHole

-----------------------------------------------------------------------------
(* The memory behind the blocks of the clients: chunks, and runs of pages. *)

heldSize(b) == IF b \in InZones THEN chunkSize(held[b]) ELSE pagesFor(held[b]) * pageSize
heldMemory == MapThenSumSet(heldSize, DOMAIN held)

\* The pages without a zone, and the blocks that start there.
BlockPages == {p \in DOMAIN pagesHeld : \A z \in DOMAIN zones : zones[z].page # p}
OutBlocks == DOMAIN held \ InZones

PageBytes == [p \in DOMAIN pagesHeld |-> pagesHeld[p] * pageSize]
HeldSizes == [b \in DOMAIN held |-> heldSize(b)]

LEMMA HeldSizesType ==
    ASSUME Inv, NEW b \in DOMAIN held
    PROVE  HeldSizes[b] \in Nat
<1>1. CASE b \in InZones
  BY <1>1, HeldBytesOf DEF HeldSizes, heldSize, HeldBytes, HeldBlocks
<1>2. CASE b \notin InZones
  <2>1. pageSize \in Nat \ {0} /\ held[b] \in Nat \ {0}
    BY HeldPlace
  <2>2. pagesFor(held[b]) \in Nat
    BY <2>1, PagesForSize
  <2>3. pagesFor(held[b]) * pageSize \in Nat
    BY <2>1, <2>2, NatProduct
  <2> QED BY <1>2, <2>3 DEF HeldSizes, heldSize
<1> QED BY <1>1, <1>2

LEMMA PageBytesType ==
    ASSUME Inv, NEW p \in DOMAIN pagesHeld
    PROVE  PageBytes[p] \in Nat
<1>1. pageSize \in Nat /\ pagesHeld[p] \in Nat
  BY InvMeans DEF Inv, RunsOK
<1>2. pagesHeld[p] * pageSize \in Nat
  BY <1>1, NatProduct
<1> QED BY <1>2 DEF PageBytes

LEMMA BlockRuns ==
    ASSUME Inv, Idle, Initialized
    PROVE  /\ \A p \in BlockPages : pageAddr(p) \in OutBlocks
           /\ \A b \in OutBlocks : \E p \in BlockPages : b = pageAddr(p)
           /\ \A p, q \in BlockPages : pageAddr(p) = pageAddr(q) => p = q
<1>1. /\ pageSize \in Nat \ {0} /\ DOMAIN pagesHeld \subseteq Nat
      /\ ZonesOK(zones, pageSize)
      /\ PageOwners(zones, pageSize, held, {}, pagesHeld)
  BY InvMeans, PageSizeType DEF Inv, Idle, Deallocated, Deallocating
<1>2. PICK ps \in Nat \ {0} : ps = pageSize
  BY <1>1
<1>3. \A z \in DOMAIN zones : Shape(zones[z], ps)
  BY <1>1, <1>2, OKShape DEF ZonesOK
<1>4. \A b : b \in InZones <=> \E z \in DOMAIN zones : b \in ChunksIn(zones[z], ps)
  BY <1>2, ZonePartsFamily, InUnion DEF ZoneParts
<1>5. \A p : pageAddr(p) = p * ps
  BY <1>2 DEF pageAddr
<1>6. ASSUME NEW p \in BlockPages PROVE pageAddr(p) \in OutBlocks
  <2>1. p \in Nat /\ p * ps \in DOMAIN held
    BY <1>1, <1>2 DEF BlockPages, PageOwners
  <2>2. p * ps \notin InZones
    BY <1>3, <1>4, <2>1, PageStart DEF BlockPages
  <2> QED BY <1>5, <2>1, <2>2 DEF OutBlocks
<1>7. ASSUME NEW b \in OutBlocks PROVE \E p \in BlockPages : b = pageAddr(p)
  <2>1. PICK p \in DOMAIN pagesHeld : b = p * ps
    BY <1>1, <1>2, <1>4 DEF OutBlocks, PageOwners
  <2>2. \A z \in DOMAIN zones : zones[z].page # p
    BY <1>3, <1>4, <2>1, PageStart DEF OutBlocks
  <2> QED BY <1>5, <2>1, <2>2 DEF BlockPages
<1>8. ASSUME NEW p \in BlockPages, NEW q \in BlockPages, pageAddr(p) = pageAddr(q)
      PROVE  p = q
  <2>1. p \in Nat /\ q \in Nat /\ p * ps = q * ps
    BY <1>1, <1>5, <1>8 DEF BlockPages
  <2> QED BY <2>1, SamePage
<1> QED BY <1>6, <1>7, <1>8

LEMMA BlockPagesSize ==
    ASSUME Inv, OriginInv, Idle, Initialized, IsFiniteSet(DOMAIN pagesHeld)
    PROVE  Weight(PageBytes, BlockPages) = Weight(HeldSizes, OutBlocks)
<1>1. PICK A : A = [p \in BlockPages |-> {pageAddr(p)}] OBVIOUS
<1>2. IsFiniteSet(BlockPages) /\ BlockPages \in SUBSET DOMAIN PageBytes
  BY FS_Subset DEF BlockPages, PageBytes
<1>3. ASSUME NEW b PROVE b \in UnionOf(A, BlockPages) <=> b \in OutBlocks
  <2>1. b \in UnionOf(A, BlockPages) <=> \E p \in BlockPages : b = pageAddr(p)
    BY <1>1, InUnion
  <2> QED BY <2>1, BlockRuns
<1>4. UnionOf(A, BlockPages) = OutBlocks
  BY <1>3
<1>5. FiniteFamily(A, BlockPages)
  BY <1>1, FS_Singleton DEF FiniteFamily
<1>6. FamilyApart(A, BlockPages)
  BY <1>1, BlockRuns DEF FamilyApart
<1>7. ASSUME NEW p \in BlockPages PROVE PageBytes[p] = Weight(HeldSizes, A[p])
  <2>1. pageAddr(p) \in OutBlocks /\ pageAddr(p) \in DOMAIN held
    BY BlockRuns DEF OutBlocks
  <2>2. pagesHeld[p] = pagesFor(held[pageAddr(p)])
    BY <2>1 DEF BlockPages, OriginInv, RunsMeasured
  <2>3. HeldSizes[pageAddr(p)] = pagesFor(held[pageAddr(p)]) * pageSize
    BY <2>1 DEF HeldSizes, heldSize, OutBlocks
  <2>4. PageBytes[p] = pagesHeld[p] * pageSize
    BY DEF PageBytes, BlockPages
  <2>5. pageAddr(p) \in DOMAIN HeldSizes /\ HeldSizes[pageAddr(p)] \in Nat
    BY <2>1, HeldSizesType DEF HeldSizes
  <2>6. Weight(HeldSizes, {pageAddr(p)}) = HeldSizes[pageAddr(p)]
    BY <2>5, WeightOne
  <2> QED BY <1>1, <2>2, <2>3, <2>4, <2>6
<1>8. OutBlocks \subseteq DOMAIN HeldSizes /\ \A b \in OutBlocks : HeldSizes[b] \in Nat
  BY HeldSizesType DEF OutBlocks, HeldSizes
<1> QED BY <1>2, <1>4, <1>5, <1>6, <1>7, <1>8, WeightOfUnion

LEMMA ZonePagesSize ==
    ASSUME Inv, Initialized
    PROVE  Weight(PageBytes, DOMAIN pagesHeld \ BlockPages) = usedMemorySize
<1>1. /\ ZonesOK(zones, pageSize) /\ pageSize \in Nat
      /\ PageOwners(zones, pageSize, held, Deallocated, pagesHeld)
  BY InvMeans
<1>2. PICK D : D = DOMAIN zones OBVIOUS
<1>3. PICK A : A = [z \in D |-> {zones[z].page}] OBVIOUS
<1>4. PICK G : G = [z \in D |-> pageSize] OBVIOUS
<1>5. IsFiniteSet(D) /\ D \in SUBSET DOMAIN G
  BY <1>1, <1>2, <1>4 DEF ZonesOK
<1>6. ASSUME NEW p
      PROVE  p \in UnionOf(A, D) <=> p \in DOMAIN pagesHeld \ BlockPages
  <2>1. p \in UnionOf(A, D) <=> \E z \in D : p = zones[z].page
    BY <1>3, InUnion
  <2> QED BY <1>1, <1>2, <2>1 DEF BlockPages, PageOwners
<1>7. UnionOf(A, D) = DOMAIN pagesHeld \ BlockPages
  BY <1>6
<1>8. FiniteFamily(A, D)
  BY <1>3, FS_Singleton DEF FiniteFamily
<1>9. FamilyApart(A, D)
  BY <1>1, <1>2, <1>3 DEF FamilyApart, ZonesOK
<1>10. UnionOf(A, D) \subseteq DOMAIN PageBytes
       /\ \A p \in UnionOf(A, D) : PageBytes[p] \in Nat
  BY <1>7, PageBytesType DEF PageBytes
<1>11. ASSUME NEW z \in D PROVE G[z] = Weight(PageBytes, A[z])
  <2>1. PICK p \in DOMAIN pagesHeld : p = zones[z].page /\ pagesHeld[p] = 1
    BY <1>1, <1>2 DEF PageOwners
  <2>2. p \in DOMAIN PageBytes /\ PageBytes[p] = pageSize
    BY <1>1, <2>1 DEF PageBytes
  <2>3. Weight(PageBytes, {p}) = PageBytes[p]
    BY <1>1, <2>2, WeightOne
  <2> QED BY <1>3, <1>4, <2>1, <2>2, <2>3
<1>12. Weight(PageBytes, UnionOf(A, D)) = Weight(G, D)
  BY <1>5, <1>8, <1>9, <1>10, <1>11, WeightOfUnion
<1>13. Weight(G, D) = Cardinality(D) * pageSize
  BY <1>1, <1>4, <1>5, WeightConstant
<1> QED BY <1>2, <1>7, <1>12, <1>13, ZonesCounted DEF usedMemorySize

LEMMA HeldCounted ==
    ASSUME Inv, IsFiniteSet(DOMAIN held)
    PROVE  heldMemory = Weight(HeldSizes, DOMAIN held)
<1>1. PICK F : F = HeldSizes OBVIOUS
<1>2. PICK S : S = DOMAIN held OBVIOUS
<1> DEFINE Fold(h) ==
               h = [s \in SUBSET S |->
                       IF s = {} THEN 0
                       ELSE heldSize(CHOOSE x \in s : TRUE)
                               + h[s \ {CHOOSE x \in s : TRUE}]]
<1>3. S \in SUBSET DOMAIN F /\ (\A b \in S : F[b] \in Nat) /\ IsFiniteSet(S)
  BY <1>1, <1>2, HeldSizesType DEF HeldSizes
<1>4. ASSUME NEW h PROVE Fold(h) <=> IsSum(h, F, S)
  <2>1. ASSUME NEW s \in SUBSET S, s # {}
        PROVE  F[CHOOSE x \in s : TRUE] = heldSize(CHOOSE x \in s : TRUE)
    <3>1. PICK b \in S : b = CHOOSE x \in s : TRUE
      BY <2>1
    <3>2. F[b] = heldSize(b)
      BY <1>1, <1>2 DEF HeldSizes
    <3> QED BY <3>1, <3>2
  <2> QED BY <2>1 DEF IsSum
<1>5. PICK h : h = CHOOSE g : Fold(g) OBVIOUS
<1>6. IsSum(h, F, S)
  <2>1. PICK g : IsSum(g, F, S)
    BY <1>3, SumExists
  <2>2. Fold(g)
    BY <1>4, <2>1
  <2>3. \E f : Fold(f)
    BY <2>2
  <2>4. Fold(h)
    BY <1>5, <2>3
  <2> QED BY <1>4, <2>4
<1>7. heldMemory = h[S]
  BY <1>2, <1>5 DEF heldMemory, MapThenSumSet, MapThenFoldSet
<1> QED BY <1>1, <1>2, <1>3, <1>6, <1>7, SumIsWeight

\* The bytes of the zones, as the counters have them.
LEMMA ZoneBytes ==
    ASSUME Inv, Idle, Initialized
    PROVE  /\ usedMemorySize \in Nat /\ reservedMemorySize \in Nat
           /\ freeMemorySize \in Nat /\ allocatedMemorySize \in Nat
           /\ allocatedMemorySize = Weight(Bytes, HeldBlocks)
           /\ usedMemorySize =
                 allocatedMemorySize + reservedMemorySize + freeMemorySize
<1>1. PICK n : n = Cardinality(DOMAIN zones) OBVIOUS
<1>2. PICK s \in Nat : s = zoneDescChunkSize
  BY DescriptorsCountedInBytes
<1>3. usedZonesCount = n /\ n \in Nat \ {0} /\ pageSize \in Nat
  BY <1>1, ZonesCounted, DescriptorsCountedInBytes, InvMeans
<1>4. PICK r \in Nat : r = (n - 1) * s
  BY <1>3, NatProduct
<1>5. reservedMemorySize = r
  BY <1>2, <1>3, <1>4 DEF reservedMemorySize
<1>6. PICK t \in Nat : t = n * pageSize
  BY <1>3, NatProduct
<1>7. usedMemorySize = t
  BY <1>3, <1>6 DEF usedMemorySize
<1>8. PICK free \in Nat : free = Weight(Bytes, AllFree) /\ free = freeMemorySize
  <2>1. AllFree \in SUBSET DOMAIN Bytes /\ \A c \in AllFree : Bytes[c] \in Nat
    BY FreePartsFamily, BytesType
  <2> QED BY <2>1, FreePartsFamily, WeightType, FreeCountedInBytes
<1>9. allocatedMemorySize = Weight(Bytes, HeldBlocks)
  BY InvAllocatedMemory, HeldCountedInBytes DEF AllocatedMemoryExact
<1>10. PICK clients \in Nat : clients = Weight(Bytes, HeldBlocks)
  <2>1. HeldBlocks \in SUBSET DOMAIN Bytes /\ \A c \in HeldBlocks : Bytes[c] \in Nat
    BY BytesType DEF HeldBlocks
  <2>2. IsFiniteSet(HeldBlocks)
    BY ZonePartsFamily, FS_Subset DEF HeldBlocks
  <2> QED BY <2>1, <2>2, WeightType
<1>11. t = free + r + clients
  BY <1>1, <1>2, <1>4, <1>6, <1>8, <1>10, AllBytes, BytesSplit,
     DescriptorsCountedInBytes
<1> QED BY <1>5, <1>7, <1>8, <1>9, <1>10, <1>11

LEMMA HeldFinite ==
    ASSUME Inv, Idle, Initialized, IsFiniteSet(DOMAIN pagesHeld)
    PROVE  /\ IsFiniteSet(HeldBlocks) /\ IsFiniteSet(OutBlocks)
           /\ IsFiniteSet(DOMAIN held)
           /\ DOMAIN held = HeldBlocks \cup OutBlocks
           /\ HeldBlocks \cap OutBlocks = {}
<1>1. IsFiniteSet(HeldBlocks)
  BY ZonePartsFamily, FS_Subset DEF HeldBlocks
<1>2. IsFiniteSet(BlockPages)
  BY FS_Subset DEF BlockPages
<1>3. PICK A : A = [p \in BlockPages |-> {pageAddr(p)}] OBVIOUS
<1>4. FiniteFamily(A, BlockPages)
  BY <1>3, FS_Singleton DEF FiniteFamily
<1>5. ASSUME NEW b PROVE b \in UnionOf(A, BlockPages) <=> b \in OutBlocks
  <2>1. b \in UnionOf(A, BlockPages) <=> \E p \in BlockPages : b = pageAddr(p)
    BY <1>3, InUnion
  <2> QED BY <2>1, BlockRuns
<1>6. UnionOf(A, BlockPages) = OutBlocks
  BY <1>5
<1>7. IsFiniteSet(OutBlocks)
  BY <1>2, <1>4, <1>6, FamilyFinite
<1>8. DOMAIN held = HeldBlocks \cup OutBlocks /\ HeldBlocks \cap OutBlocks = {}
  BY DEF HeldBlocks, OutBlocks
<1> QED BY <1>1, <1>7, <1>8, DisjointUnion

\* The pages handed out are those of the zones and the runs of the clients,
\* who hold these runs and the chunks that are neither free nor descriptors.
LEMMA HeldMemory ==
    ASSUME Inv, OriginInv, Idle, Initialized, IsFiniteSet(DOMAIN pagesHeld)
    PROVE  \E runs \in Nat :
              /\ Weight(PageBytes, DOMAIN pagesHeld) = usedMemorySize + runs
              /\ heldMemory = allocatedMemorySize + runs
<1>1. PICK runs : runs = Weight(HeldSizes, OutBlocks) OBVIOUS
<1>2. /\ HeldBlocks \in SUBSET DOMAIN HeldSizes
      /\ OutBlocks \in SUBSET DOMAIN HeldSizes
      /\ DOMAIN HeldSizes = DOMAIN held
      /\ \A b \in DOMAIN held : HeldSizes[b] \in Nat
  BY HeldSizesType DEF HeldSizes, HeldBlocks, OutBlocks
<1>3. runs \in Nat
  BY <1>1, <1>2, HeldFinite, WeightType
<1>4. PICK P : P = DOMAIN pagesHeld \ BlockPages OBVIOUS
<1>5. Weight(PageBytes, DOMAIN pagesHeld) = usedMemorySize + runs
  <2>1. /\ P \in SUBSET DOMAIN PageBytes /\ BlockPages \in SUBSET DOMAIN PageBytes
        /\ P \cup BlockPages = DOMAIN pagesHeld /\ P \cap BlockPages = {}
    BY <1>4 DEF BlockPages, PageBytes
  <2>2. IsFiniteSet(P) /\ IsFiniteSet(BlockPages)
    BY <2>1, FS_Subset
  <2>3. \A p \in P \cup BlockPages : PageBytes[p] \in Nat
    BY <2>1, PageBytesType
  <2>4. Weight(PageBytes, P \cup BlockPages) =
           Weight(PageBytes, P) + Weight(PageBytes, BlockPages)
    BY <2>1, <2>2, <2>3, WeightJoin
  <2> QED BY <1>1, <1>4, <2>1, <2>4, BlockPagesSize, ZonePagesSize
<1>6. heldMemory = allocatedMemorySize + runs
  <2>1. Weight(HeldSizes, HeldBlocks) = Weight(Bytes, HeldBlocks)
    <3>1. \A b \in HeldBlocks : HeldSizes[b] = Bytes[b]
      BY HeldBytesOf DEF HeldSizes, heldSize, HeldBytes, HeldBlocks
    <3>2. HeldBlocks \in SUBSET DOMAIN Bytes
      BY BytesType DEF HeldBlocks
    <3> QED BY <1>2, <3>1, <3>2, WeightSame
  <2>2. Weight(HeldSizes, HeldBlocks \cup OutBlocks) =
           Weight(HeldSizes, HeldBlocks) + Weight(HeldSizes, OutBlocks)
    <3>1. \A b \in HeldBlocks \cup OutBlocks : HeldSizes[b] \in Nat
      BY <1>2
    <3> QED BY <1>2, <3>1, HeldFinite, WeightJoin
  <2> QED BY <1>1, <2>1, <2>2, HeldFinite, HeldCounted, ZoneBytes
<1> QED BY <1>3, <1>5, <1>6
=============================================================================
