SPECIFICATION Spec
CONSTANTS
    MaxGroupIdx = 4
    GroupSizeBits = 5
    AddrSpace = 4096
    AddrBits = 12
    nullptr = nullptr
    MemoryModels <- MCAdjacent
    PageSizes = {128}
    AllocCounts = {1, 2, 3, 4}
    MinimalPageSize = 128
    PageDescSize = 32
    MaxRegionsCount = 3
    UnsignedBits = 12
INVARIANTS
    GroupsConsistent
    HeldIntact
