SPECIFICATION FairSpec
CONSTANTS
    MaxGroupIdx = 4
    GroupSizeBits = 5
    AddrSpace = 4096
    AddrBits = 12
    nullptr = nullptr
    MemoryModels <- MCSeparated
    PageSizes = {64, 128, 192, 256}
    AllocCounts = {0, 1, 2, 3, 6}
    MinimalPageSize = 128
    PageDescSize = 32
    MaxRegionsCount = 3
    UnsignedBits = 10
INVARIANTS
    Inv
    RegionsInv
    GroupsConsistent
    HeldIntact
    NoUnmergedNeighbours
    DescriptorsReserved
    PageLookup
    StatsExact
    AllocatedFromOneRegion
PROPERTIES
    TotalIsMemoryKept
    CallReturns
    ImplementsPagePool
