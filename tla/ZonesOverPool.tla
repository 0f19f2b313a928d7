---------------------------- MODULE ZonesOverPool ----------------------------
(***************************************************************************)
(* The zone allocator over a page allocator that keeps the promise of      *)
(* PagePool, and the facade that calls it (lib/allocator.cpp).             *)
(***************************************************************************)
EXTENDS ZoneAllocator

CONSTANT PoolModels  \* for each page size, the areas of pages it may find

\* No page is in two areas; no page is at address 0.
ASSUME PoolsAssumption ==
    \A size \in PageSizes : \A pool \in PoolModels[size] :
        /\ \A area \in pool : area # {} /\ area \subseteq Nat \ {0}
        /\ \A a, b \in pool : a # b => a \cap b = {}

VARIABLES
    areas,     \* the areas of the pages of the page allocator
    pagesHeld  \* the runs that are allocated: first page -> number of pages

poolVars == <<areas, pagesHeld>>
vars == <<areas, pagesHeld, pageSize, zoneVars, callVars, held, reply, before>>

Pages == INSTANCE PagePool
    WITH held <- pagesHeld, reply <- nullptr, AllocCounts <- {}

takeRun(p, count) == pagesHeld' = with(pagesHeld, p, count)

\* Mutant: the page is not released.
giveRun_Keep(p) == UNCHANGED pagesHeld

giveRun(p) == pagesHeld' = without(pagesHeld, p)

\* PageAllocator::getPage, for the pages a client may have.
getPage(addr) ==
    IF addr \div pageSize \in UNION areas THEN addr \div pageSize ELSE nullptr

NoPages == areas' = {} /\ pagesHeld' = Nothing

-----------------------------------------------------------------------------
Init == InitZones /\ areas = {} /\ pagesHeld = Nothing

InitPool(size) ==
    \* The descriptors take all the pages.
    \/ InitFails(size) /\ NoPages
    \/ \E pool \in PoolModels[size] : \E p \in UNION pool :
          /\ InitSucceeds(size, p)
          /\ areas' = pool
          /\ pagesHeld' = [q \in {p} |-> 1]

AllocateRun(size) ==
    /\ Idle
    /\ \/ /\ AllocatePages(size, nullptr)
          /\ Pages!FreeRuns(pagesFor(size)) = {}
          /\ UNCHANGED pagesHeld
       \/ \E p \in Pages!FreeRuns(pagesFor(size)) :
             AllocatePages(size, p) /\ takeRun(p, pagesFor(size))
    /\ UNCHANGED areas

Call ==
    \/ (Clear \/ InitRejected) /\ NoPages
    \/ \E size \in PageSizes : InitPool(size)
    \/ \E size \in AllocSizes :
          \/ AllocateRun(size)
          \/ /\ \/ AllocateNothing(size) \/ AllocateThrows(size)
                \/ AllocateChunk(size) \/ AllocateStart(size)
             /\ UNCHANGED poolVars
    \/ \E addr \in DOMAIN held : Release(addr) /\ UNCHANGED poolVars
    \/ ReleaseNull /\ UNCHANGED poolVars

AllocateZone ==
    /\ NeedsPage
    /\ \/ ZoneFails /\ Pages!FreeRuns(1) = {} /\ UNCHANGED pagesHeld
       \/ \E p \in Pages!FreeRuns(1) : AddZone(p) /\ takeRun(p, 1)
    /\ UNCHANGED areas

ReleaseRun ==
    /\ IF phase = "release" /\ getPage(argument) # nullptr
       THEN giveRun(getPage(argument))
       ELSE UNCHANGED pagesHeld
    /\ UNCHANGED areas

Step ==
    \/ AllocateDescZone /\ UNCHANGED poolVars
    \/ AllocateZone
    \/ GiveChunk /\ UNCHANGED poolVars
    \/ RemoveZone /\ giveRun(zones[findZone(chunk)].page) /\ UNCHANGED areas
    \/ NotInZones /\ ReleaseRun

Next == Call \/ Step

Spec == Init /\ [][Next]_vars

\* A call is run to its end by the thread that made it.
FairSpec == Spec /\ WF_vars(Step)

-----------------------------------------------------------------------------
(* Properties.                                                             *)

\* Every variable has its type; a descriptor is initialZone or an address.
TypeOK ==
    /\ pageSize \in PageSizes \cup {0}
    /\ DOMAIN pagesHeld \subseteq UNION areas
    /\ \A p \in DOMAIN pagesHeld : pagesHeld[p] \in Nat \ {0}
    /\ DOMAIN zones \subseteq Nat \cup {initialZone}
    /\ \A z \in DOMAIN zones : zones[z] \in ZoneType
    /\ zoneLists \in [ZoneIdx -> Seq(DOMAIN zones)]
    /\ freeChunks \in [ZoneIdx -> Nat]
    /\ phase \in {"idle", "allocate", "undo", "release"}
    /\ frames \in Seq([chunkSize : Nat, checked : BOOLEAN])
    /\ chunk \in Nat \cup {nullptr}
    /\ argument \in Nat
    /\ DOMAIN held \subseteq Nat
    /\ \A b \in DOMAIN held : held[b] \in AllocSizes

\* Each run of pages that is allocated is one zone's or one client's: zones
\* and clients never share a page, and none is lost by either.
PagesOwned ==
    /\ \A z \in DOMAIN zones :
          /\ zones[z].page \in DOMAIN pagesHeld
          /\ pagesHeld[zones[z].page] = 1
          /\ \A y \in DOMAIN zones \ {z} : zones[y].page # zones[z].page
    /\ \A p \in DOMAIN pagesHeld :
          (\A z \in DOMAIN zones : zones[z].page # p) =>
              \/ pageAddr(p) \in Deallocated
              \/ /\ pageAddr(p) \in DOMAIN held
                 /\ held[pageAddr(p)] <= pagesHeld[p] * pageSize
    /\ \A b \in DOMAIN held \ InZones :
          \E p \in DOMAIN pagesHeld : b = pageAddr(p)

\* An allocateZone that fails, with or without a zone of descriptors
\* allocated on the way, leaves every zone as it was.
FailedAllocationUndone ==
    [][(/\ phase \in {"allocate", "undo"}
        /\ phase' = "idle"
        /\ reply'.result = nullptr)
       => <<zones', zoneLists', freeChunks'>> = before]_vars

\* allocate refuses a size only if the pages for it are missing: for a chunk
\* one page, or two if a zone of descriptors is due as well.
RefusedOnlyWithoutPages ==
    LET size   == reply.size
        needed == IF zoneIdx(chunkSize(size)) # zoneDescIdx
                     /\ shouldAllocateZone(zoneDescIdx) THEN 2 ELSE 1
    IN  reply.op = "allocate" /\ reply.result = nullptr /\ size # 0 =>
            IF isForPages(size)
            THEN Pages!FreeRuns(pagesFor(size)) = {}
            ELSE Cardinality(Pages!FreeRuns(1)) < needed

\* The recursion of allocateZone and of deallocateChunk ends.
CallReturns == (phase # "idle") ~> (phase = "idle")

-----------------------------------------------------------------------------
memory == UNION {pageAddr(p)..(pageAddr(p) + pageSize - 1) : p \in UNION areas}

\* Seen from the caller of allocate and release, the library is a heap.
ClientHeap == INSTANCE Heap WITH blocks <- held
ImplementsHeap == ClientHeap!Spec
===============================================================================
