--------------------------- MODULE AllocatorInvariant ---------------------------
(***************************************************************************)
(* The inductive invariant of Allocator: those of the two allocators, each *)
(* as its own module states it, and what ties their states together.  The  *)
(* instances are of the modules with the theorems, so that what is known   *)
(* of either allocator can be cited.                                       *)
(***************************************************************************)
EXTENDS Allocator

\* The numbers of pages the zone allocator and allocate ask for.
PageCounts ==
    {1} \cup {(size + pages - 1) \div pages : size \in AllocSizes, pages \in validPageSizes}

PA == INSTANCE PageRegionsProofs
    WITH pageSize <- pagesPageSize, phase <- pagesPhase, held <- groups,
         reply <- pagesReply, AllocCounts <- PageCounts

ZA == INSTANCE ZonesOverPoolProofs
    WITH areas <- zoneAreas, pagesHeld <- zonePages, PageSizes <- validPageSizes

\* What the theorems about the two allocators assume.
ASSUME PagesAssumption ==
    /\ PA!NullAssumption
    /\ PA!AddrSpaceAssumption
    /\ PA!ListForEverySize
    /\ PA!PowersOfTwo
    /\ PA!ConfigAssumption
    /\ PA!MemoryModelsAssumption
    /\ PA!PagesFit
    /\ PA!RegionsApart
    /\ PA!UnsignedRange

ASSUME ZonesAssumption ==
    /\ ZA!NamesAssumption
    /\ ZA!SizesAssumption
    /\ ZA!PoolsAssumption
    /\ ZA!PowersOfTwo
    /\ ZA!ChunksFit
    /\ ZA!ChunksFillPages

\* The pools of the zone allocator are those that init leaves of the memory.
ASSUME PoolsLeft ==
    \A memory \in MemoryModels, size \in validPageSizes :
        \A r \in PA!keptRegions(memory, size) :
            PA!pagesLeft(memory, size, r) \in PoolModels[size]

-----------------------------------------------------------------------------
PagesReleasing == pagesPhase \in {"above", "below"}

\* init runs: the loops of the page allocator first, then what is left to do
\* with their result.
InitializingInv ==
    initializing # 0 =>
        /\ Idle /\ ~Initialized
        /\ initializing \in validPageSizes
        /\ \/ pagesPhase = "scan" /\ request.pageSize = initializing
           \/ pagesPhase = "setup" /\ pagesPageSize = initializing
           \/ pagesPhase = "idle" /\ pagesReply = PA!Reply("init", FALSE)
           \/ /\ pagesPhase = "idle" /\ pagesReply = PA!Reply("init", TRUE)
              /\ pagesCount > 0
              /\ pagesPageSize = initializing
              /\ groups = PA!NoPages

\* The zone allocator has zones only while the page allocator has pages of the
\* same size, and the page allocator runs only for one of its calls.
InitializedInv ==
    IF Initialized
    THEN /\ initializing = 0
         /\ pagesPhase = "idle" \/ PagesReleasing
         /\ pagesCount > 0
         /\ pageSize = pagesPageSize
    ELSE initializing = 0 => pagesPhase = "idle"

Inv ==
    /\ PA!Inv
    /\ PA!RegionsInv
    /\ PA!MemoryInv
    /\ ZA!Inv
    /\ ZA!OriginInv
    /\ InitializingInv
    /\ InitializedInv
=============================================================================
