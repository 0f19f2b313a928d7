SPECIFICATION Spec
CONSTANTS
    MemoryModels <- MCTouching
    PoolModels <- MCTouchingPools
    PageSizes = {128}
    AllocSizes = {50, 100, 200}
    MinimalAllocSize = 16
    ZoneDescSize = 56
    MaxZoneIdx = 8
    AddrBits = 12
    initialZone = initialZone
    nullptr = nullptr
    MinimalPageSize = 128
    PageDescSize = 32
    MaxRegionsCount = 3
    MaxGroupIdx = 4
    GroupSizeBits = 5
    AddrSpace = 4096
    UnsignedBits = 12
INVARIANT NothingLost
