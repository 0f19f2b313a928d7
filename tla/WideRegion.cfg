SPECIFICATION Spec
CONSTANTS
    MaxGroupIdx = 2
    GroupSizeBits = 3
    AddrSpace = 4096
    AddrBits = 12
    nullptr = nullptr
    MemoryModels <- MCWide
    PageSizes = {128}
    AllocCounts = {1, 2}
    MinimalPageSize = 128
    PageDescSize = 32
    MaxRegionsCount = 3
    UnsignedBits = 12
INVARIANT AllFreeAfterInit
