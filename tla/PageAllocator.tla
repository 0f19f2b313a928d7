---------------------------- MODULE PageAllocator ----------------------------
(***************************************************************************)
(* The allocator of physical pages (lib/PageAllocator.cpp).                *)
(*                                                                         *)
(* The program is sequential, but its calls are loops over a table that    *)
(* the loop itself rewrites.  init and release are therefore modelled one  *)
(* iteration per step, with phase naming the loop that runs:               *)
(*                                                                         *)
(*   init      "scan"   one region of the caller's array per step          *)
(*             "setup"  the descriptors of one region per step             *)
(*   release   "above"  one group before the released one per step         *)
(*             "below"  one group after it per step                        *)
(*                                                                         *)
(* and "idle" when no call runs.  allocate and clear change the state in   *)
(* one step.  The client is part of the model: it may call anything when   *)
(* no call runs, and releases only what it holds.                          *)
(***************************************************************************)
EXTENDS FreeLists, RegionInfo

CONSTANTS
    MemoryModels,     \* the region arrays a client passes to init
    PageSizes,        \* the page sizes a client passes to init
    AllocCounts,      \* the numbers of pages a client asks for
    MinimalPageSize,  \* minimalPageSize(): 128
    PageDescSize,     \* sizeof(Page)
    MaxRegionsCount,  \* m_cMaxRegionsCount: 8
    AddrBits,         \* width of an address
    UnsignedBits      \* width of unsigned int: 32

ASSUME ConfigAssumption ==
    /\ MinimalPageSize \in Nat \ {0}
    /\ PageDescSize \in Nat \ {0}
    /\ MaxRegionsCount \in Nat \ {0}
    /\ PageSizes \subseteq Nat
    /\ AllocCounts \subseteq Nat

\* The regions end before the last address: lib/RegionInfo.cpp asserts it.
ASSUME MemoryModelsAssumption ==
    \A memory \in MemoryModels :
        /\ memory \in Seq([address : Nat, size : Nat \ {0}])
        /\ \A i \in DOMAIN memory :
              memory[i].address + memory[i].size < AddrSpace

VARIABLES
    regionsInfo,      \* m_regionsInfo, its first m_validRegionsCount entries
    pageSize,         \* m_pageSize
    descRegionIdx,    \* m_descRegionIdx, counted from 1
    descPagesCount,   \* m_descPagesCount
    pagesCount,       \* m_pagesCount; m_pagesHead is page 0
    address,          \* page -> m_addr, for the descriptors written so far
    pool,             \* the rest of the descriptors, and the free lists
    phase,            \* the loop that runs
    request,          \* the arguments of the init call that runs
    cursor,           \* i of the loops of init
    joinedGroup,      \* joinedGroup of release
    held,             \* ghost: group a client holds -> pages it asked for
    reply             \* ghost: the last call and what it returned

memoryVars == <<regionsInfo, pageSize, descRegionIdx, descPagesCount,
                pagesCount, address>>
vars == <<regionsInfo, pageSize, descRegionIdx, descPagesCount, pagesCount,
          address, pool, phase, request, cursor, joinedGroup, held, reply>>

NoRequest == [regions |-> <<>>, pageSize |-> 0]
Reply(op, result) == [op |-> op, count |-> 0, result |-> result]
AllocReply(count, result) == [op |-> "allocate", count |-> count, result |-> result]
NoReply == Reply("none", nullptr)

Page == 0..(pagesCount - 1)

-----------------------------------------------------------------------------
(* Helpers of the source that compute a value.                             *)

isValidPageSize(size) ==
    size >= MinimalPageSize /\ \E k \in 0..(AddrBits - 1) : size = 2^k

isValidPage(page) == page >= 0 /\ page <= pagesCount - 1

\* Mutant: a region does not contain its own first address.
regionsAt_Exclusive(addr) ==
    LET alignedAddr == alignDown(addr, pageSize)
    IN  {i \in DOMAIN regionsInfo :
            /\ regionsInfo[i].alignedStart < alignedAddr
            /\ regionsInfo[i].alignedEnd >= alignedAddr}

regionsAt(addr) ==
    LET alignedAddr == alignDown(addr, pageSize)
    IN  {i \in DOMAIN regionsInfo :
            /\ regionsInfo[i].alignedStart <= alignedAddr
            /\ regionsInfo[i].alignedEnd >= alignedAddr}

\* The first entry that matches.
getRegion(addr) ==
    IF regionsAt(addr) = {} THEN nullptr ELSE Min(regionsAt(addr))

getPage(addr) ==
    LET region == getRegion(addr)
        pages  == IF region = nullptr
                  THEN {}
                  ELSE {p \in regionsInfo[region].firstPage..
                                  regionsInfo[region].lastPage :
                            address[p] = alignDown(addr, pageSize)}
    IN  IF pages = {} THEN nullptr ELSE Min(pages)

\* The sum of counts[i] over S, as the number of pairs of an i and one of
\* its pages.
total(counts, S) == Cardinality(UNION {{i} \X (1..counts[i]) : i \in S})

pageCounts(infos) == [i \in DOMAIN infos |-> infos[i].pageCount]
countPages(infos) == total(pageCounts(infos), DOMAIN infos)

\* The loop starts from the first entry and moves only to an entry that is
\* large enough and strictly smaller, the earliest of those.
chooseDescRegion(infos, count) ==
    LET sizeOf(i)  == infos[i].alignedSize
        candidates == {1} \cup {i \in DOMAIN infos :
                                  sizeOf(i) >= count * PageDescSize}
    IN  CHOOSE i \in candidates :
            \A j \in candidates :
                sizeOf(i) < sizeOf(j) \/ (sizeOf(i) = sizeOf(j) /\ i <= j)

\* Mutant: a page the descriptors fill only in part is not counted.
reserveDescPages_Whole(info) ==
    Cardinality({k \in 0..(info.pageCount - 1) :
                    (k + 1) * pageSize <= pagesCount * PageDescSize})

\* The pages of the region that start below the end of the descriptors.
reserveDescPages(info) ==
    Cardinality({k \in 0..(info.pageCount - 1) :
                    k * pageSize < pagesCount * PageDescSize})

-----------------------------------------------------------------------------
Init ==
    /\ regionsInfo = <<>>
    /\ pageSize = 0
    /\ descRegionIdx = 0
    /\ descPagesCount = 0
    /\ pagesCount = 0
    /\ address = NoPages
    /\ pool = EmptyLists
    /\ phase = "idle"
    /\ request = NoRequest
    /\ cursor = 0
    /\ joinedGroup = nullptr
    /\ held = NoPages
    /\ reply = NoReply

\* Mutant: m_validRegionsCount is not reset.
clear_KeepsRegions ==
    /\ UNCHANGED regionsInfo
    /\ pageSize' = 0
    /\ descRegionIdx' = 0
    /\ descPagesCount' = 0
    /\ pagesCount' = 0
    /\ address' = NoPages
    /\ pool' = EmptyLists
    /\ held' = NoPages

\* The assignments of PageAllocator::clear.  Whatever the client held is
\* gone with the descriptors.
clear ==
    /\ regionsInfo' = <<>>
    /\ pageSize' = 0
    /\ descRegionIdx' = 0
    /\ descPagesCount' = 0
    /\ pagesCount' = 0
    /\ address' = NoPages
    /\ pool' = EmptyLists
    /\ held' = NoPages

Clear ==
    /\ phase = "idle"
    /\ clear
    /\ reply' = Reply("clear", nullptr)
    /\ UNCHANGED <<phase, request, cursor, joinedGroup>>

-----------------------------------------------------------------------------
(* init                                                                    *)

InitRejectsPageSize(size) ==
    /\ phase = "idle"
    /\ ~isValidPageSize(size)
    /\ clear
    /\ reply' = Reply("init", FALSE)
    /\ UNCHANGED <<phase, request, cursor, joinedGroup>>

InitStart(memory, size) ==
    /\ phase = "idle"
    /\ isValidPageSize(size)
    /\ clear
    /\ phase' = "scan"
    /\ request' = [regions |-> memory, pageSize |-> size]
    /\ cursor' = 1
    /\ reply' = NoReply
    /\ UNCHANGED joinedGroup

ScanRegion ==
    /\ phase = "scan"
    /\ cursor <= Len(request.regions)
    /\ cursor <= MaxRegionsCount
    /\ LET region == request.regions[cursor]
       IN  regionsInfo' =
              IF regionKept(region, request.pageSize)
              THEN Append(regionsInfo, initRegionInfo(region, request.pageSize))
              ELSE regionsInfo
    /\ cursor' = cursor + 1
    /\ UNCHANGED <<pageSize, descRegionIdx, descPagesCount, pagesCount,
                   address, pool, phase, request, joinedGroup, held, reply>>

InitReturns(result) ==
    /\ phase' = "idle"
    /\ request' = NoRequest
    /\ cursor' = 0
    /\ reply' = Reply("init", result)

\* The entries scanned so far stay in m_regionsInfo.
TooManyRegions ==
    /\ phase = "scan"
    /\ cursor <= Len(request.regions)
    /\ cursor = MaxRegionsCount + 1
    /\ InitReturns(FALSE)
    /\ UNCHANGED <<memoryVars, pool, joinedGroup, held>>

NoUsablePages ==
    /\ phase = "scan"
    /\ cursor > Len(request.regions)
    /\ countPages(regionsInfo) = 0
    /\ InitReturns(FALSE)
    /\ UNCHANGED <<memoryVars, pool, joinedGroup, held>>

ScanDone ==
    /\ phase = "scan"
    /\ cursor > Len(request.regions)
    /\ countPages(regionsInfo) # 0
    /\ pagesCount' = countPages(regionsInfo)
    /\ pageSize' = request.pageSize
    /\ descRegionIdx' = chooseDescRegion(regionsInfo, countPages(regionsInfo))
    /\ phase' = "setup"
    /\ cursor' = 1
    /\ UNCHANGED <<regionsInfo, descPagesCount, address, pool, request,
                   joinedGroup, held, reply>>

\* The number of descriptors written so far is also the page written next.
nextPage == Cardinality(DOMAIN address)

\* Page::init for count pages from first on.
initPages(m, first, count) ==
    LET all == 0..(first + count - 1)
    IN  [groupSize |-> [p \in all |-> IF p < first THEN m.groupSize[p] ELSE 0],
         used      |-> [p \in all |-> IF p < first THEN m.used[p] ELSE FALSE],
         lists     |-> m.lists,
         freePagesCount |-> m.freePagesCount]

\* Those pages as one group, which is in no list yet.
writeRegion(m, first, count) ==
    LET written == initPages(m, first, count)
    IN  withSizes(written, initGroup(written.groupSize, first, count))

\* The region that stores the descriptors: its first pages are reserved, and
\* the rest, if any, is free.
withDescRegion(m, first, count, reserved) ==
    LET grouped == writeRegion(m, first, count)
        reserve == first..(first + reserved - 1)
        marked  == withUsed(grouped, setUsed(grouped.used, reserve, TRUE))
        cut     == withSizes(marked,
                       splitGroup(grouped.groupSize, first, reserved))
    IN  IF reserved = grouped.groupSize[first]
        THEN cut
        ELSE addGroup(cut, first + reserved)

SetupRegion ==
    /\ phase = "setup"
    /\ LET info     == regionsInfo[cursor]
           count    == info.pageCount
           reserved == reserveDescPages(info)
       IN  /\ regionsInfo' = [regionsInfo EXCEPT
                                 ![cursor].firstPage = nextPage,
                                 ![cursor].lastPage = nextPage + count - 1]
           /\ address' =
                 [p \in 0..(nextPage + count - 1) |->
                     IF p < nextPage
                     THEN address[p]
                     ELSE info.alignedStart + (p - nextPage) * pageSize]
           /\ IF cursor = descRegionIdx
              THEN /\ descPagesCount' = reserved
                   /\ pool' = withDescRegion(pool, nextPage, count, reserved)
              ELSE /\ descPagesCount' = descPagesCount
                   /\ pool' = addGroup(writeRegion(pool, nextPage, count), nextPage)
    /\ IF cursor = Len(regionsInfo)
       THEN InitReturns(TRUE)
       ELSE /\ cursor' = cursor + 1
            /\ UNCHANGED <<phase, request, reply>>
    /\ UNCHANGED <<pageSize, descRegionIdx, pagesCount, joinedGroup, held>>

-----------------------------------------------------------------------------
(* allocate                                                                *)

\* The places of the free lists the two loops stop at: list i, position k.
fits(i, k, count) == pool.groupSize[pool.lists[i][k]] >= count

firstFit(i, k, count) ==
    /\ fits(i, k, count)
    /\ \A l \in 1..(k - 1) : ~fits(i, l, count)
    /\ \A j \in groupIdx(count)..(i - 1) :
          \A l \in DOMAIN pool.lists[j] : ~fits(j, l, count)

\* Mutant: the list of the exact size class is passed over.
searched_Larger(count) == {i \in ListIdx : groupIdx(count) < i}

searched(count) == {i \in ListIdx : groupIdx(count) <= i}

\* Mutant: what remains is not put back.
takePages_Leak(m, group, count) ==
    withSizes(removeGroup(m, group), splitGroup(m.groupSize, group, count))

\* Mutant: the part for the client is put back, not the rest.
takePages_Swapped(m, group, count) ==
    LET cut == withSizes(removeGroup(m, group),
                         splitGroup(m.groupSize, group, count))
    IN  IF count = m.groupSize[group] THEN cut ELSE addGroup(cut, group)

\* removeGroup, splitGroup, and addGroup of what remains.
takePages(m, group, count) ==
    LET removed == removeGroup(m, group)
        cut     == withSizes(removed, splitGroup(m.groupSize, group, count))
    IN  IF count = m.groupSize[group]
        THEN cut
        ELSE addGroup(cut, group + count)

Allocate(count) ==
    /\ phase = "idle"
    /\ count # 0
    /\ pool.freePagesCount >= count
    /\ \E i \in searched(count) : \E k \in DOMAIN pool.lists[i] :
          /\ firstFit(i, k, count)
          /\ LET group == pool.lists[i][k]
             IN  /\ pool' = takePages(pool, group, count)
                 /\ held' = [g \in DOMAIN held \cup {group} |->
                                IF g = group THEN count ELSE held[g]]
                 /\ reply' = AllocReply(count, group)
    /\ UNCHANGED <<memoryVars, phase, request, cursor, joinedGroup>>

AllocateFails(count) ==
    /\ phase = "idle"
    /\ \/ count = 0
       \/ pool.freePagesCount < count
       \/ \A i \in searched(count) : \A k \in DOMAIN pool.lists[i] :
             ~fits(i, k, count)
    /\ reply' = AllocReply(count, nullptr)
    /\ UNCHANGED <<memoryVars, pool, phase, request, cursor, joinedGroup, held>>

-----------------------------------------------------------------------------
(* release                                                                 *)

Release(group) ==
    /\ phase = "idle"
    /\ phase' = "above"
    /\ joinedGroup' = group
    /\ held' = [g \in DOMAIN held \ {group} |-> held[g]]
    /\ reply' = NoReply
    /\ UNCHANGED <<memoryVars, pool, request, cursor>>

ReleaseNull ==
    /\ phase = "idle"
    /\ reply' = Reply("release", nullptr)
    /\ UNCHANGED <<memoryVars, pool, phase, request, cursor, joinedGroup, held>>

\* Mutant: pages of two regions are joined.
joinable_AnyRegion(page, neighbour) ==
    isValidPage(neighbour) /\ ~pool.used[neighbour]

\* The three tests of each loop of release, for the neighbour of a page.
joinable(page, neighbour) ==
    /\ isValidPage(neighbour)
    /\ getRegion(address[page]) = getRegion(address[neighbour])
    /\ ~pool.used[neighbour]

lastAbove == joinedGroup - 1
lastJoined == joinedGroup + pool.groupSize[joinedGroup] - 1
\* Mutant: the page below is the last page itself.
firstBelow_OffByOne == lastJoined

firstBelow == lastJoined + 1

\* removeGroup of the neighbour, then joinGroup.
absorb(m, neighbour, first, second) ==
    withSizes(removeGroup(m, neighbour), joinGroup(m.groupSize, first, second))

JoinAbove ==
    /\ phase = "above"
    /\ joinable(joinedGroup, lastAbove)
    /\ LET firstAbove == lastAbove - pool.groupSize[lastAbove] + 1
       IN  /\ pool' = absorb(pool, firstAbove, firstAbove, joinedGroup)
           /\ joinedGroup' = firstAbove
    /\ UNCHANGED <<memoryVars, phase, request, cursor, held, reply>>

\* Mutant: the loop goes on where it should end.
NothingAbove_Continue ==
    /\ phase = "above"
    /\ ~joinable(joinedGroup, lastAbove)
    /\ UNCHANGED vars

NothingAbove ==
    /\ phase = "above"
    /\ ~joinable(joinedGroup, lastAbove)
    /\ phase' = "below"
    /\ UNCHANGED <<memoryVars, pool, request, cursor, joinedGroup, held, reply>>

JoinBelow ==
    /\ phase = "below"
    /\ joinable(lastJoined, firstBelow)
    /\ pool' = absorb(pool, firstBelow, joinedGroup, firstBelow)
    /\ UNCHANGED <<memoryVars, phase, request, cursor, joinedGroup, held, reply>>

FinishRelease ==
    /\ phase = "below"
    /\ ~joinable(lastJoined, firstBelow)
    /\ pool' = addGroup(pool, joinedGroup)
    /\ phase' = "idle"
    /\ joinedGroup' = nullptr
    /\ reply' = Reply("release", nullptr)
    /\ UNCHANGED <<memoryVars, request, cursor, held>>

-----------------------------------------------------------------------------
\* The calls a client makes.
Call ==
    \/ Clear
    \/ \E size \in PageSizes : InitRejectsPageSize(size)
    \/ \E memory \in MemoryModels, size \in PageSizes : InitStart(memory, size)
    \/ \E count \in AllocCounts : Allocate(count)
    \/ \E count \in AllocCounts : AllocateFails(count)
    \/ \E group \in DOMAIN held : Release(group)
    \/ ReleaseNull

\* The steps of the call that runs.
Step ==
    \/ ScanRegion \/ TooManyRegions \/ NoUsablePages \/ ScanDone \/ SetupRegion
    \/ JoinAbove \/ NothingAbove \/ JoinBelow \/ FinishRelease

Next == Call \/ Step

Spec == Init /\ [][Next]_vars

\* A call is run to its end by the thread that made it; nobody has to call.
FairSpec == Spec /\ WF_vars(Step)

-----------------------------------------------------------------------------
(* getStats                                                                *)

\* std::accumulate from 0U: each sum is cut to an unsigned int.
accumulate(sizes) ==
    LET sum[i \in 0..Len(sizes)] ==
            IF i = 0 THEN 0 ELSE (sum[i - 1] + sizes[i]) % 2^UnsignedBits
    IN  sum[Len(sizes)]

totalMemorySize == accumulate([i \in DOMAIN regionsInfo |-> regionsInfo[i].size])

\* Mutant: the parts of pages at the ends of the regions are counted.
effectiveMemorySize_Unaligned == totalMemorySize

effectiveMemorySize ==
    accumulate([i \in DOMAIN regionsInfo |-> regionsInfo[i].alignedSize])

Stats ==
    [totalMemorySize : Nat, effectiveMemorySize : Nat, userMemorySize : Nat,
     freeMemorySize : Nat, pageSize : Nat, totalPagesCount : Nat,
     reservedPagesCount : Nat, freePagesCount : Nat]

getStats ==
    [totalMemorySize     |-> totalMemorySize,
     effectiveMemorySize |-> effectiveMemorySize,
     userMemorySize      |-> effectiveMemorySize - pageSize * descPagesCount,
     freeMemorySize      |-> pool.freePagesCount * pageSize,
     pageSize            |-> pageSize,
     totalPagesCount     |-> pagesCount,
     reservedPagesCount  |-> descPagesCount,
     freePagesCount      |-> pool.freePagesCount]

-----------------------------------------------------------------------------
(* Properties.                                                             *)

Releasing == phase \in {"above", "below"}
Initialized == phase = "idle" /\ pagesCount > 0

\* The groups no free list holds: the client's, the one release is working
\* on, and the one that stores the descriptors.
ReservedGroup ==
    IF descPagesCount > 0 THEN {regionsInfo[descRegionIdx].firstPage} ELSE {}
OutOfLists ==
    DOMAIN held \cup ReservedGroup
                \cup (IF Releasing THEN {joinedGroup} ELSE {})

RegionInfoType ==
    [start : Nat, end : Nat, alignedStart : Nat, alignedEnd : Nat,
     pageCount : Nat \ {0}, size : Nat, alignedSize : Nat,
     firstPage : Nat \cup {nullptr}, lastPage : Nat \cup {nullptr}]

\* Every variable of the allocator has the type its declaration gives it.
TypeOK ==
    /\ regionsInfo \in Seq(RegionInfoType)
    /\ pageSize \in Nat
    /\ descRegionIdx \in Nat
    /\ descPagesCount \in Nat
    /\ pagesCount \in Nat
    /\ address \in [0..(nextPage - 1) -> Nat]
    /\ ListsTyped(pool, nextPage)
    /\ phase \in {"idle", "scan", "setup", "above", "below"}
    /\ request \in [regions : MemoryModels \cup {<<>>},
                     pageSize : PageSizes \cup {0}]
    /\ cursor \in Nat
    /\ joinedGroup \in Page \cup {nullptr}
    /\ DOMAIN held \subseteq Page
    /\ \A g \in DOMAIN held : held[g] \in Nat \ {0}
    /\ \/ \E op \in {"none", "clear", "release"} : reply = Reply(op, nullptr)
       \/ reply.op = "init" /\ \E result \in BOOLEAN : reply = Reply("init", result)
       \/ /\ reply.op = "allocate"
          /\ \E count \in AllocCounts, result \in Page \cup {nullptr} :
                reply = AllocReply(count, result)

\* Between any two iterations of init and release the groups tile the table
\* of descriptors, each is in the one free list its size selects or in none,
\* the two copies of its size agree, and the counter and the 'used' flags
\* say the same (addGroup, removeGroup, splitGroup, joinGroup).
GroupsConsistent == ListsInv(pool, OutOfLists, nextPage)

\* What allocate handed out stays the client's: its pages are all marked
\* used, its size is still in the descriptor that release will read, and it
\* shares no page with another client or with the descriptors.
HeldPages(g) == g..(g + held[g] - 1)
HeldIntact ==
    \A g \in DOMAIN held :
        /\ pool.groupSize[g] = held[g]
        /\ \A p \in HeldPages(g) : p \in Page /\ pool.used[p]
        /\ \A h \in DOMAIN held \ {g} : HeldPages(g) \cap HeldPages(h) = {}
        /\ HeldPages(g) \cap UNION {Group(pool.groupSize, r) :
                                        r \in ReservedGroup} = {}

\* release joins all it can: when no call runs, two free groups never touch
\* inside one region.
NoUnmergedNeighbours ==
    Initialized =>
        \A i \in DOMAIN regionsInfo :
            \A p \in regionsInfo[i].firstPage..(regionsInfo[i].lastPage - 1) :
                ~pool.used[p] /\ ~pool.used[p + 1] => p + 1 \notin FreeGroups(pool)

\* No page that stores a descriptor is free or a client's.
DescriptorsReserved ==
    Initialized =>
        LET table == regionsInfo[descRegionIdx].alignedStart
        IN  \A p \in Page :
                (/\ address[p] + pageSize > table
                 /\ address[p] < table + pagesCount * PageDescSize)
                => /\ pool.used[p]
                   /\ \A g \in DOMAIN held : p \notin HeldPages(g)

\* getPage returns the page that contains an address, and nothing for an
\* address that no page contains.
PageLookup ==
    Initialized =>
        \A q \in Page : \A offset \in {0, pageSize - 1, pageSize} :
            LET addr == address[q] + offset
                page == getPage(addr)
                holders == {p \in Page : /\ address[p] <= addr
                                         /\ addr < address[p] + pageSize}
            IN  IF holders = {} THEN page = nullptr ELSE page \in holders

\* As long as the regions that were kept are together not larger than an
\* unsigned int can say, getStats accounts for every byte of them: what is
\* not free is the clients', the descriptors' or outside the whole pages of
\* its region, and no difference wraps below zero.  Of a region that init
\* dropped it says nothing: see TotalIsMemoryKept.
StatsExact ==
    LET stats   == getStats
        sumOf(f(_)) == MapThenSumSet(f, DOMAIN regionsInfo)
        sizes   == sumOf(LAMBDA i : regionsInfo[i].size)
        outside == sumOf(LAMBDA i : regionsInfo[i].end - regionsInfo[i].start
                                    - pageSize * regionsInfo[i].pageCount)
        clients == UNION {HeldPages(g) : g \in DOMAIN held}
    IN  Initialized /\ sizes < 2^UnsignedBits =>
            /\ stats \in Stats
            /\ stats.totalMemorySize = sizes
            /\ stats.userMemorySize - stats.freeMemorySize =
                   Cardinality(clients) * pageSize
            /\ stats.totalMemorySize =
                   outside + stats.userMemorySize
                           + stats.reservedPagesCount * pageSize

\* The size of the array init was called with, and what of it the regions
\* have that init drops: those without a whole page.
passedSizes == [i \in DOMAIN request.regions |-> request.regions[i].size]
keptPassed ==
    {i \in DOMAIN passedSizes : regionKept(request.regions[i], request.pageSize)}
sizePassed(S) == MapThenSumSet(LAMBDA i : passedSizes[i], S)
memoryPassed == sizePassed(DOMAIN passedSizes)
memoryDropped == sizePassed(DOMAIN passedSizes \ keptPassed)

\* totalMemorySize is documented as "Total size of the memory passed during
\* initialization" (PageAllocator.hpp:52, include/allocator/allocator.hpp:44).
\* It is not: what the last step of a successful init leaves there is the
\* size of the array that init was called with less the regions that
\* initRegionInfo dropped, whatever earlier calls of init had found, if an
\* unsigned int can say it.
TotalIsMemoryKept ==
    [][phase = "setup" /\ phase' = "idle"
          /\ memoryPassed - memoryDropped < 2^UnsignedBits
          => totalMemorySize' = memoryPassed - memoryDropped]_vars

\* "All allocated pages must be from the same region" (PageAllocator.hpp:81).
AllocatedFromOneRegion ==
    Initialized =>
        \A g \in DOMAIN held : \E i \in DOMAIN regionsInfo :
            HeldPages(g) \subseteq regionsInfo[i].firstPage..regionsInfo[i].lastPage

\* What init does not reserve, it makes free
\* (test/liballocator-tests/unit/PageAllocator.cpp:470-473).
AllFreeAfterInit ==
    reply.op = "init" /\ reply.result =>
        pool.freePagesCount = pagesCount - descPagesCount

\* The loops of init and release end.
CallReturns == (phase # "idle") ~> (phase = "idle")

-----------------------------------------------------------------------------
(* The pool of pages a client sees.  While a call of init runs there is    *)
(* none; a group is back as soon as it is passed to release.               *)

userPages(i) ==
    LET reserved == IF i = descRegionIdx THEN descPagesCount ELSE 0
    IN  (regionsInfo[i].firstPage + reserved)..regionsInfo[i].lastPage

areas ==
    IF phase \in {"scan", "setup"} \/ pagesCount = 0
    THEN {}
    ELSE {userPages(i) : i \in DOMAIN regionsInfo} \ {{}}

Pool == INSTANCE PagePool
ImplementsPagePool == Pool!Spec
=============================================================================
