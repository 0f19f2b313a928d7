SPECIFICATION Spec
CONSTANTS
    AddrSpace = 40
    nullptr = nullptr
    Addresses <- MCAddresses
    Sizes <- MCSizes
    PageSizes = {4, 8}
INVARIANT AssertsHold
CHECK_DEADLOCK FALSE
