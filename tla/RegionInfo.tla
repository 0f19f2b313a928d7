------------------------------ MODULE RegionInfo ------------------------------
(***************************************************************************)
(* What PageAllocator::init derives from one region the caller passes      *)
(* (lib/RegionInfo.cpp): the whole, aligned pages that fit in it.          *)
(* Addresses are unsigned and wrap at AddrSpace; page sizes are powers of  *)
(* two, so that clearing the low bits of an address rounds it down.        *)
(***************************************************************************)
EXTENDS Integers, Sequences

CONSTANTS
    AddrSpace,  \* number of addresses, 2^32 or 2^64
    nullptr     \* the null pointer, different from every page

ASSUME AddrSpaceAssumption == AddrSpace \in Nat \ {0}
ASSUME NullAssumption == nullptr \notin Int

\* Regions a caller can pass: they end where the address space does or
\* before.  A size of zero ends the array.
Regions(addresses, sizes) ==
    {r \in [address : addresses, size : sizes] : r.address + r.size <= AddrSpace}

alignDown(addr, pageSize) == (addr \div pageSize) * pageSize

RegionEnd(region) == (region.address + region.size) % AddrSpace

\* The values the two std::optional results carry, and the tests under which
\* they are std::nullopt.
\* Mutant: the start is rounded down and stays there.
alignedStart_Down(region, pageSize) == alignDown(region.address, pageSize)

alignedStart(region, pageSize) ==
    LET start == alignDown(region.address, pageSize)
    IN  IF start < region.address THEN (start + pageSize) % AddrSpace ELSE start

alignedStartExists(region, pageSize) ==
    alignedStart(region, pageSize) <= RegionEnd(region)

alignedEnd(region, pageSize) == alignDown(RegionEnd(region), pageSize)

alignedEndExists(region, pageSize) ==
    alignedEnd(region, pageSize) >= region.address

-----------------------------------------------------------------------------
\* The record clearRegionInfo leaves.
clearedInfo == [start |-> 0, end |-> 0, alignedStart |-> 0, alignedEnd |-> 0,
                pageCount |-> 0, size |-> 0, alignedSize |-> 0,
                firstPage |-> nullptr, lastPage |-> nullptr]

pageCount(region, pageSize) ==
    ((alignedEnd(region, pageSize) - alignedStart(region, pageSize)) % AddrSpace)
        \div pageSize

\* initRegionInfo returns TRUE.
regionKept(region, pageSize) ==
    region.size >= pageSize /\ pageCount(region, pageSize) # 0

\* The asserts of initRegionInfo, reached in this order when the region is
\* large enough.
assertsHold(region, pageSize) ==
    region.size >= pageSize =>
        /\ alignedStartExists(region, pageSize)
        /\ alignedEndExists(region, pageSize)

\* The record initRegionInfo leaves, whatever it returns.  firstPage and
\* lastPage are set later, by PageAllocator::init.
initRegionInfo(region, pageSize) ==
    IF region.size < pageSize
    THEN clearedInfo
    ELSE LET n == pageCount(region, pageSize)
         IN  [start        |-> region.address,
              end          |-> RegionEnd(region),
              alignedStart |-> alignedStart(region, pageSize),
              alignedEnd   |-> alignedEnd(region, pageSize),
              pageCount    |-> n,
              size         |-> IF n = 0 THEN 0 ELSE region.size,
              alignedSize  |-> n * pageSize,
              firstPage    |-> nullptr,
              lastPage     |-> nullptr]
=============================================================================
