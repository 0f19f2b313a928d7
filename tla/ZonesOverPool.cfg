SPECIFICATION FairSpec
CONSTANTS
    PoolModels <- MC384Bytes
    PageSizes = {128, 256}
    AllocSizes = {0, 20, 50, 100, 200}
    MinimalAllocSize = 16
    ZoneDescSize = 56
    MaxZoneIdx = 3
    AddrBits = 16
    initialZone = initialZone
    nullptr = nullptr
INVARIANTS
    TypeOK
    Inv
    FailureInv
    ChunksOwned
    PagesOwned
    CountersAgree
    DescriptorLeft
    NoEmptyZone
    RefusedOnlyWithoutPages
    AllocatedMemoryExact
PROPERTIES
    FailedAllocationUndone
    CallReturns
    ImplementsHeap
