------------------------ MODULE PageAllocatorInvariant ------------------------
(***************************************************************************)
(* The inductive invariant of PageAllocator.  It holds as long as the size *)
(* of no group is cut to the width of PageFlags::groupSize, that is, for   *)
(* memory models with fewer pages than that width can count.               *)
(***************************************************************************)
EXTENDS PageAllocator

\* The number of pages init finds in each region of the caller's array.
modelPages(memory, size) ==
    [i \in DOMAIN memory |->
        IF regionKept(memory[i], size) THEN pageCount(memory[i], size) ELSE 0]

ASSUME PagesFit ==
    \A memory \in MemoryModels, size \in PageSizes :
        isValidPageSize(size) =>
            total(modelPages(memory, size), DOMAIN memory) < SizeLimit

-----------------------------------------------------------------------------
NotReleasing == joinedGroup = nullptr

\* Nothing is known yet but regionsInfo.
Nothing ==
    /\ nextPage = 0
    /\ descPagesCount = 0
    /\ pool = EmptyLists
    /\ held = NoPages
    /\ reply = NoReply

\* No call runs: all descriptors are written.
IdleInv ==
    phase = "idle" =>
        /\ NotReleasing
        /\ request = NoRequest
        /\ cursor = 0
        /\ nextPage = pagesCount

\* The regions passed have as many pages as the entries made for them.
ScanInv ==
    phase = "scan" =>
        /\ NotReleasing
        /\ Nothing
        /\ pagesCount = 0
        /\ request.regions \in MemoryModels
        /\ request.pageSize \in PageSizes
        /\ isValidPageSize(request.pageSize)
        /\ cursor \in 1..(Len(request.regions) + 1)
        /\ countPages(regionsInfo) =
              total(modelPages(request.regions, request.pageSize),
                    1..(cursor - 1))

\* The descriptors of the entries before cursor are written.
SetupInv ==
    phase = "setup" =>
        /\ NotReleasing
        /\ held = NoPages
        /\ reply = NoReply
        /\ cursor \in DOMAIN regionsInfo
        /\ pagesCount = countPages(regionsInfo)
        /\ pagesCount > 0
        /\ nextPage = total(pageCounts(regionsInfo), 1..(cursor - 1))
        /\ descPagesCount > 0 => descRegionIdx \in 1..(cursor - 1)

\* The group to be released is nobody's.
ReleaseInv ==
    Releasing =>
        /\ joinedGroup \in Page
        /\ joinedGroup \notin DOMAIN held \cup ReservedGroup
        /\ request = NoRequest
        /\ cursor = 0
        /\ nextPage = pagesCount

\* A group that is handed out has the size the client asked for, and is not
\* the one with the descriptors.
HeldInv ==
    /\ DOMAIN held \cap ReservedGroup = {}
    /\ \A g \in DOMAIN held : held[g] = pool.groupSize[g]

\* Strengthens TypeOK, GroupsConsistent and HeldIntact, and is preserved by
\* every step.
Inv ==
    /\ TypeOK
    /\ pagesCount < SizeLimit
    /\ IdleInv
    /\ ScanInv
    /\ SetupInv
    /\ ReleaseInv
    /\ GroupsConsistent
    /\ HeldInv
=============================================================================
