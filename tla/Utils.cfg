SPECIFICATION Spec
CONSTANTS
    Width = 64
    Sizes <- MCSizes
    PageSizes <- MCPageSizes
    MinimalBit = 4
    MaxZoneIdx = 8
INVARIANTS
    PowersRecognized
    RoundsUp
    PagesForLargeSizes
    ChunkFits
