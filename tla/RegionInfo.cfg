SPECIFICATION Spec
CONSTANTS
    AddrSpace = 40
    nullptr = nullptr
    Addresses <- MCLowAddresses
    Sizes <- MCSizes
    PageSizes = {4, 8}
INVARIANT KeepsWholePages
