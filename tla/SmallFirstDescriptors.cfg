SPECIFICATION Spec
CONSTANTS
    MaxGroupIdx = 4
    GroupSizeBits = 5
    AddrSpace = 4096
    AddrBits = 12
    nullptr = nullptr
    MemoryModels <- MCSmallFirst
    PageSizes = {128}
    AllocCounts = {1, 2}
    MinimalPageSize = 128
    PageDescSize = 32
    MaxRegionsCount = 3
    UnsignedBits = 12
INVARIANT DescriptorsReserved
