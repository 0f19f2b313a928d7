SPECIFICATION FairSpec
CONSTANTS
    MemoryModels <- MCSeparated
    PoolModels <- MCSeparatedPools
    PageSizes = {64, 128, 256}
    AllocSizes = {50, 100, 200}
    MinimalAllocSize = 16
    ZoneDescSize = 56
    MaxZoneIdx = 3
    AddrBits = 12
    initialZone = initialZone
    nullptr = nullptr
    MinimalPageSize = 128
    PageDescSize = 32
    MaxRegionsCount = 3
    MaxGroupIdx = 4
    GroupSizeBits = 5
    AddrSpace = 4096
    UnsignedBits = 12
INVARIANTS
    Inv
    LibraryStatsExact
    NothingLost
PROPERTIES
    CallReturns
    ImplementsZonesOverPool
