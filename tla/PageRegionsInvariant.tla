------------------------- MODULE PageRegionsInvariant -------------------------
(***************************************************************************)
(* The inductive invariant of PageAllocator about its regions, for memory  *)
(* models whose regions do not touch: otherwise release joins pages of two *)
(* regions.  It says that the descriptors have room where init puts them   *)
(* for memory models whose first region can hold them, since init falls    *)
(* back to the first region.                                               *)
(***************************************************************************)
EXTENDS PageAllocatorInvariant

\* At least one page, or part of one, lies between any two regions.
ASSUME RegionsApart ==
    \A memory \in MemoryModels, size \in PageSizes :
        isValidPageSize(size) =>
            \A i, j \in DOMAIN memory :
                i # j /\ regionKept(memory[i], size) /\ regionKept(memory[j], size) =>
                    \/ alignedEnd(memory[i], size) < alignedStart(memory[j], size)
                    \/ alignedEnd(memory[j], size) < alignedStart(memory[i], size)

\* Arithmetic the provers have no theory for.
ASSUME UnsignedRange == 2^UnsignedBits \in Nat \ {0}

isFirstKept(memory, size, i) ==
    /\ regionKept(memory[i], size)
    /\ \A j \in 1..(i - 1) : ~regionKept(memory[j], size)

DescriptorsFit ==
    \A memory \in MemoryModels, size \in PageSizes :
        isValidPageSize(size) =>
            \A i \in DOMAIN memory :
                isFirstKept(memory, size, i) =>
                    total(modelPages(memory, size), DOMAIN memory) * PageDescSize
                        <= pageCount(memory[i], size) * size

-----------------------------------------------------------------------------
(* The entries of m_regionsInfo.                                           *)

\* An entry is a number of whole pages, which its region contains.
Aligned(info, size) ==
    /\ alignDown(info.alignedStart, size) = info.alignedStart
    /\ info.alignedEnd = info.alignedStart + info.pageCount * size
    /\ info.alignedSize = info.pageCount * size
    /\ info.size = info.end - info.start
    /\ info.alignedSize <= info.size

Apart(info, other) ==
    \/ info.alignedEnd < other.alignedStart
    \/ other.alignedEnd < info.alignedStart

EntriesOK(infos, size) ==
    /\ \A i \in DOMAIN infos : Aligned(infos[i], size)
    /\ \A i, j \in DOMAIN infos : i # j => Apart(infos[i], infos[j])

madeFor(info, memory, size, m) ==
    regionKept(memory[m], size) /\ info = initRegionInfo(memory[m], size)

\* infos was made for the first k regions of memory: each entry for one of
\* them, the first entry for the first region that was kept.
Scanned(infos, memory, size, k) ==
    /\ EntriesOK(infos, size)
    /\ \A i \in DOMAIN infos : \E m \in 1..k : madeFor(infos[i], memory, size, m)
    /\ infos = <<>> => \A m \in 1..k : ~regionKept(memory[m], size)
    /\ infos # <<>> => \E m \in 1..k : /\ isFirstKept(memory, size, m)
                                      /\ madeFor(infos[1], memory, size, m)

ScanRegionsInv ==
    phase = "scan" =>
        Scanned(regionsInfo, request.regions, request.pageSize, cursor - 1)

-----------------------------------------------------------------------------
(* The pages of the regions, in the table of descriptors.                  *)

TableKnown == phase # "scan" /\ pagesCount > 0

\* The entries whose descriptors are written.
SetUp == IF phase = "setup" THEN 1..(cursor - 1) ELSE DOMAIN regionsInfo

regionPages(i) == regionsInfo[i].firstPage..regionsInfo[i].lastPage
Starts == {regionsInfo[i].firstPage : i \in SetUp}

PagesPlaced(i) ==
    LET info == regionsInfo[i]
    IN  /\ info.firstPage \in Nat
        /\ info.lastPage = info.firstPage + info.pageCount - 1
        /\ info.lastPage < nextPage
        /\ info.lastPage + 1 \in Starts \cup {nextPage}
        /\ \A p \in regionPages(i) :
              address[p] = info.alignedStart + (p - info.firstPage) * pageSize

DescriptorsPlaced ==
    LET info == regionsInfo[descRegionIdx]
    IN  descRegionIdx \in SetUp =>
            /\ descPagesCount = reserveDescPages(info)
            /\ pool.groupSize[info.firstPage] = descPagesCount

TableInv ==
    TableKnown =>
        /\ pageSize \in Nat \ {0}
        /\ EntriesOK(regionsInfo, pageSize)
        /\ descRegionIdx \in DOMAIN regionsInfo
        /\ DescriptorsFit =>
              pagesCount * PageDescSize <= regionsInfo[descRegionIdx].alignedSize
        /\ \A i \in SetUp : PagesPlaced(i)
        /\ \A i, j \in SetUp : i # j => regionPages(i) \cap regionPages(j) = {}
        /\ \A p \in 0..(nextPage - 1) : \E i \in SetUp : p \in regionPages(i)
        /\ DescriptorsPlaced

\* No group has pages of two regions, since each region starts one; and the
\* page before a free group is used or another region's.
GroupsInv ==
    TableKnown =>
        /\ Starts \subseteq Heads(pool, OutOfLists)
        /\ \A g \in FreeGroups(pool) \ Starts : pool.used[g - 1]
        /\ phase = "below" /\ joinedGroup \notin Starts =>
              pool.used[joinedGroup - 1]

RegionsInv ==
    /\ ScanRegionsInv
    /\ TableInv
    /\ GroupsInv

-----------------------------------------------------------------------------
(* Which memory the entries were made for, and what is left of it for the  *)
(* clients.  RegionsInv does not need it; who relies on init having found  *)
(* all the pages of the caller's array does.                               *)

\* The entry is region m; firstPage and lastPage come later.
describes(info, memory, size, m) ==
    /\ regionKept(memory[m], size)
    /\ info.alignedStart = alignedStart(memory[m], size)
    /\ info.pageCount = pageCount(memory[m], size)

\* infos has the first k regions of memory, those that were kept, no other.
EntriesFor(infos, memory, size, k) ==
    /\ \A i \in DOMAIN infos : \E m \in 1..k : describes(infos[i], memory, size, m)
    /\ \A m \in 1..k :
          regionKept(memory[m], size) =>
              \E i \in DOMAIN infos : describes(infos[i], memory, size, m)

pagesOf(memory, size) == total(modelPages(memory, size), DOMAIN memory)

TableOf(memory) ==
    /\ pageSize \in PageSizes
    /\ isValidPageSize(pageSize)
    /\ EntriesFor(regionsInfo, memory, pageSize, Len(memory))
    /\ pagesCount = pagesOf(memory, pageSize)

MemoryInv ==
    /\ phase = "scan" =>
          EntriesFor(regionsInfo, request.regions, request.pageSize, cursor - 1)
    /\ TableKnown => \E memory \in MemoryModels : TableOf(memory)

\* A page by its number, counted from address 0.
pageNumber(p) == address[p] \div pageSize
Numbered(S) == {pageNumber(p) : p \in S}

\* The pages that start below the end of the descriptors, if region m holds
\* them.
descPages(memory, size, m) ==
    Cardinality({k \in 0..(pageCount(memory[m], size) - 1) :
                    k * size < pagesOf(memory, size) * PageDescSize})

\* The numbers of the pages of region m, without the first ones.
numbersFrom(memory, size, m, reserved) ==
    LET first == alignedStart(memory[m], size) \div size
    IN  (first + reserved)..(first + pageCount(memory[m], size) - 1)

keptRegions(memory, size) == {m \in DOMAIN memory : regionKept(memory[m], size)}

\* What is left if region r holds the descriptors.
pagesLeft(memory, size, r) ==
    {numbersFrom(memory, size, m,
                 IF m = r THEN descPages(memory, size, r) ELSE 0)
        : m \in keptRegions(memory, size)} \ {{}}
=============================================================================
