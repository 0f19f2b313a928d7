SPECIFICATION Spec
CONSTANTS
    PoolModels <- MC16384Bytes
    PageSizes = {8192}
    AllocSizes = {3000, 4096}
    MinimalAllocSize = 16
    ZoneDescSize = 56
    MaxZoneIdx = 8
    AddrBits = 16
    initialZone = initialZone
    nullptr = nullptr
INVARIANTS
    AllocateReturns
