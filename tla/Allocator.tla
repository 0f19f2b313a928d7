------------------------------ MODULE Allocator ------------------------------
(***************************************************************************)
(* The library as its caller sees it (lib/allocator.cpp): one              *)
(* ZoneAllocator over one PageAllocator, each call of either run step by   *)
(* step.  The variables and actions of the zone allocator keep their       *)
(* names; those of the page allocator are behind Pages.                    *)
(*                                                                         *)
(* A page of the zone allocator is its number, address div page size; a    *)
(* page of the page allocator is the index of its descriptor.              *)
(***************************************************************************)
EXTENDS ZoneAllocator

CONSTANTS
    MemoryModels, MinimalPageSize, PageDescSize, MaxRegionsCount,
    MaxGroupIdx, GroupSizeBits, AddrSpace, UnsignedBits,
    PoolModels  \* for each page size, the pages the memory models leave

VARIABLES
    \* the fields of pageAllocator; the last two are ghosts
    regionsInfo, pagesPageSize, descRegionIdx, descPagesCount, pagesCount,
    address, pool, pagesPhase, request, cursor, joinedGroup, groups, pagesReply,
    initializing  \* the page size while init runs, otherwise 0

Pages == INSTANCE PageAllocator
    WITH pageSize <- pagesPageSize, phase <- pagesPhase, held <- groups,
         reply <- pagesReply, AllocCounts <- {}

pagesVars == <<regionsInfo, pagesPageSize, descRegionIdx, descPagesCount,
               pagesCount, address, pool, pagesPhase, request, cursor,
               joinedGroup, groups, pagesReply>>
vars == <<allocatorVars, pagesVars, initializing>>

pageNumber(group) == address[group] \div pagesPageSize
groupOf(page) ==
    CHOOSE g \in Pages!Page : address[g] = page * pagesPageSize

\* What PageAllocator::allocate has just returned.
allocated == pageNumber(pagesReply'.result)

PagesIdle == pagesPhase = "idle"
Resting == Idle /\ PagesIdle /\ initializing = 0

Init == InitZones /\ Pages!Init /\ initializing = 0

\* The array that init(start, end, pageSize) passes on; an entry of size 0
\* ends it.
boundaries(start, end) ==
    IF end = start THEN <<>> ELSE <<[address |-> start, size |-> end - start]>>

-----------------------------------------------------------------------------
(* init and clear                                                          *)

ClearBoth == Resting /\ Pages!Clear /\ Clear /\ UNCHANGED initializing

InitRefusesPageSize(size) ==
    /\ Resting
    /\ Pages!InitRejectsPageSize(size)
    /\ InitRejected
    /\ UNCHANGED initializing

\* clear, then PageAllocator::init up to its first loop.
InitStart(memory, size) ==
    /\ Resting
    /\ Pages!InitStart(memory, size)
    /\ Clear
    /\ initializing' = size

\* PageAllocator::init has returned.
PagesReady(result) ==
    /\ initializing # 0
    /\ PagesIdle
    /\ pagesReply = Pages!Reply("init", result)
    /\ initializing' = 0

InitWithoutPages == PagesReady(FALSE) /\ InitRejected /\ UNCHANGED pagesVars

\* ZoneAllocator::init, which asks for the page of the initial zone.
InitZoneAllocator ==
    /\ PagesReady(TRUE)
    /\ \/ Pages!Allocate(1) /\ InitSucceeds(initializing, allocated)
       \/ Pages!AllocateFails(1) /\ InitFails(initializing)

-----------------------------------------------------------------------------
(* allocate and release: what the zone allocator does, with the call of    *)
(* the page allocator it makes.                                            *)

AllocateFromPages(size) ==
    /\ Resting /\ Initialized
    /\ isForPages(size)
    /\ \/ Pages!Allocate(pagesFor(size)) /\ AllocatePages(size, allocated)
       \/ Pages!AllocateFails(pagesFor(size)) /\ AllocatePages(size, nullptr)
    /\ UNCHANGED initializing

AllocateFromZones(size) ==
    /\ Resting
    /\ \/ AllocateNothing(size) \/ AllocateThrows(size)
       \/ AllocateChunk(size) \/ AllocateStart(size)
    /\ UNCHANGED <<pagesVars, initializing>>

ReleaseBlock ==
    /\ Resting
    /\ ReleaseNull \/ \E addr \in DOMAIN held : Release(addr)
    /\ UNCHANGED <<pagesVars, initializing>>

AllocateZone ==
    /\ PagesIdle
    /\ NeedsPage
    /\ \/ Pages!Allocate(1) /\ AddZone(allocated)
       \/ Pages!AllocateFails(1) /\ ZoneFails
    /\ UNCHANGED initializing

\* Mutant: the page of the zone is not released.
DropZone_Leak ==
    /\ PagesIdle
    /\ RemoveZone
    /\ UNCHANGED <<pagesVars, initializing>>

DropZone ==
    /\ PagesIdle
    /\ EmptiesZone
    /\ Pages!Release(groupOf(zones[findZone(chunk)].page))
    /\ RemoveZone
    /\ UNCHANGED initializing

\* release looks for the pages of its argument, and releases them.
ReleasePages ==
    /\ PagesIdle
    /\ LET page == Pages!getPage(argument)
       IN  IF phase = "release" /\ page # nullptr
           THEN Pages!Release(page)
           ELSE UNCHANGED pagesVars
    /\ NotInZones
    /\ UNCHANGED initializing

ZoneStep ==
    /\ PagesIdle
    /\ AllocateDescZone \/ GiveChunk
    /\ UNCHANGED <<pagesVars, initializing>>

PageStep == Pages!Step /\ UNCHANGED <<allocatorVars, initializing>>

Call ==
    \/ ClearBoth
    \/ \E size \in PageSizes :
          \/ InitRefusesPageSize(size)
          \/ \E memory \in MemoryModels : InitStart(memory, size)
    \/ \E size \in AllocSizes : AllocateFromPages(size) \/ AllocateFromZones(size)
    \/ ReleaseBlock

Step ==
    \/ InitWithoutPages \/ InitZoneAllocator
    \/ AllocateZone \/ DropZone \/ ReleasePages \/ ZoneStep \/ PageStep

Next == Call \/ Step

Spec == Init /\ [][Next]_vars

\* A call is run to its end by the thread that made it.
FairSpec == Spec /\ WF_vars(Step)

-----------------------------------------------------------------------------
(* getStats                                                                *)

\* Mutant: the pages of the zones count as the user's.
usedByUser_Zones(pages) ==
    pages.userMemorySize - pages.freeMemorySize + allocatedMemorySize

usedByUser(pages) ==
    pages.userMemorySize - pages.freeMemorySize
        - usedMemorySize + allocatedMemorySize

Stats ==
    [totalMemorySize : Nat, reservedMemorySize : Nat, userMemorySize : Nat,
     allocatedMemorySize : Nat, freeMemorySize : Nat]

getStats ==
    LET pages    == Pages!getStats
        total    == pages.totalMemorySize
        reserved == total - pages.effectiveMemorySize
                    + pages.reservedPagesCount * pages.pageSize
                    + reservedMemorySize
    IN  [totalMemorySize     |-> total,
         reservedMemorySize  |-> reserved,
         userMemorySize      |-> total - reserved,
         allocatedMemorySize |-> usedByUser(pages),
         freeMemorySize      |-> total - reserved - usedByUser(pages)]

-----------------------------------------------------------------------------
(* Properties.                                                             *)

\* The memory behind a block: its chunk, or its pages.
blockSize(addr) ==
    IF addr \in InZones
    THEN chunkSize(held[addr])
    ELSE pagesFor(held[addr]) * pageSize

regionsSize == MapThenSumSet(LAMBDA i : regionsInfo[i].size, DOMAIN regionsInfo)

\* As long as the regions together are not larger than an unsigned int can
\* say: the statistics, which are differences of the counters of both
\* allocators, say how much the caller holds, and how much is left in free
\* pages and free chunks, and none of them wraps below zero.
LibraryStatsExact ==
    Resting /\ Initialized /\ regionsSize < 2^UnsignedBits =>
        /\ getStats \in Stats
        /\ getStats.allocatedMemorySize =
              MapThenSumSet(blockSize, DOMAIN held)
        /\ getStats.freeMemorySize =
              pool.freePagesCount * pageSize + freeMemorySize

\* A caller that has released all it held finds the library as after init:
\* one zone, and all other pages free.  The tests of the library compare
\* REQUIRE(pageAllocator.getStats().freePagesCount == freePagesCount)
\* (test/liballocator-tests/integration/ZoneAllocator.cpp:93).
NothingLost ==
    Resting /\ Initialized /\ held = Nothing =>
        /\ zones = [z \in {initialZone} |-> zones[z]]
        /\ Pages!getStats.freePagesCount =
              Pages!getStats.totalPagesCount - Pages!getStats.reservedPagesCount - 1

\* Every call returns, through the loops of the page allocator and the
\* recursions of the zone allocator.
CallReturns == ~Resting ~> Resting

-----------------------------------------------------------------------------
(* The zone allocator gets from PageAllocator all that PagePool promises.  *)

zoneAreas ==
    IF Initialized
    THEN {{pageNumber(p) : p \in area} : area \in Pages!areas}
    ELSE {}

zonePages ==
    IF Initialized
    THEN [n \in {pageNumber(g) : g \in DOMAIN groups} |-> groups[groupOf(n)]]
    ELSE Nothing

\* The other page sizes do not reach the zone allocator.
validPageSizes == {size \in PageSizes : Pages!isValidPageSize(size)}

Zones == INSTANCE ZonesOverPool
    WITH areas <- zoneAreas, pagesHeld <- zonePages, PageSizes <- validPageSizes
ImplementsZonesOverPool == Zones!Spec
=============================================================================
