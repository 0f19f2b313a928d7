# Verification of liballocator

TLA+ models of the allocator library in `lib/`, the TLC configurations that
check them on small instances, and proofs of the properties that hold for
every instance.  The other directories of the repository (tests, benchmarks,
demo, board start-up, vendored STM32 files) hold none of the library's state;
the tests and the comments in the headers are used as statements of what the
library should do.

The library is sequential: it has no threads, no callbacks and nothing that
survives a crash.  What makes it hard is that it keeps one fact in many places.
A group of free pages is recorded in two page descriptors, in one of twenty
linked lists chosen by its size, in a counter and in a flag of every page it
has, and loops rewrite these places while they read them.

## Inventory

| Part | Source | State | Operations |
| --- | --- | --- | --- |
| Intrusive lists | `ListNode.hpp` | `m_next`, `m_prev` of a node; a pointer to the first | `initListNode`, `addToList`, `removeFromList` |
| Page descriptors | `Page.hpp/.cpp` | address, 21-bit `groupSize`, `used`, list links | setters and getters, siblings |
| Page groups | `group.hpp/.cpp` | none of its own: `groupSize` of a group's first and last page | `groupIdx`, `initGroup`, `clearGroup`, `splitGroup`, `joinGroup` |
| Region information | `RegionInfo.hpp/.cpp` | aligned bounds and page count of one region | `clearRegionInfo`, `initRegionInfo` |
| Page allocator | `PageAllocator.hpp/.cpp` | up to 8 region infos, the descriptor table, 20 free lists, counters | `init`, `clear`, `allocate`, `release`, `getPage`, `getStats` |
| Bit tricks | `utils.hpp` | none | `isPowerOf2`, `roundPowerOf2`, `movePtr` |
| Zones | `Zone.hpp/.cpp` | the page of a zone, its free chunks and their number | `init`, `clear`, `takeChunk`, `giveChunk`, `isValidChunk` |
| Zone allocator | `ZoneAllocator.hpp/.cpp` | 8 lists of zones with free-chunk counters, the initial zone | `init`, `clear`, `allocate`, `release`, `getStats` |
| Facade | `allocator.cpp` | one page allocator and one zone allocator | `init`, `clear`, `allocate`, `release`, `getStats` |

How they interact: the facade calls the zone allocator, which serves small
sizes from zones and large ones from the page allocator, and takes one page
from the page allocator for every zone.  A zone's descriptor is itself a chunk
of a zone of descriptors, so that `allocateZone` and `deallocateChunk` call
themselves.  The page allocator stores its descriptors in pages of the memory
it manages, links the free groups with `ListNode`, and reshapes them with the
functions of `group.cpp`.

What makes each part correct:

- **Lists**: both directions of the links and the head agree; the list is the
  sequence of nodes that were added and not removed.
- **Groups and free lists**: the groups tile the descriptor table; the two
  copies of a group's size agree and no inner descriptor keeps one; a free
  group is in the list of its size and in no other; the counter and the `used`
  flags agree with the lists.
- **Region information**: exactly the whole pages of a region are kept.
- **Page allocator**: what a client holds is its own until it gives it back; a
  request is refused only if no free run is long enough; `release` leaves no
  two free neighbours; no page with a descriptor is handed out; `getPage` finds
  the page of an address; every call returns.
- **Zones, zone allocator**: a chunk is free, a client's or a zone's
  descriptor, and only one of these; a page is a zone's or a client's; two
  counters per zone and one per list agree with the lists; a descriptor chunk is
  always left for the next zone; a failed allocation undoes everything; an empty
  zone goes; the recursion ends.
- **Bit tricks**: rounding gives the next power of two as far as it is used, and
  a size that is rounded wrongly is never served by a zone.
- **Facade**: what the caller of `allocate` holds is a heap of blocks that do
  not overlap; who has released everything finds the library as after `init`; the
  overall statistics, differences of the counters of both allocators, are exact.

`PROJECT.json` lists the hazards of the code line by line, with the property
that guards each one.

## Modules

| Module | What it is |
| --- | --- |
| `PageGroup` | `group.cpp` and the width of `groupSize`, as operators on the function *page -> groupSize* |
| `FreeLists` | `addGroup` and `removeGroup` as operators on the record of sizes, flags, lists and counter; `ListsInv`, the invariant of that record |
| `RegionInfo` | `RegionInfo.cpp` as operators, with addresses that wrap |
| `PageAllocator` | the state machine of `PageAllocator.cpp`, and its client |
| `PagePool` | what the page allocator promises: runs of pages taken from areas and given back |
| `RegionInfoUse` | one `RegionInfo` object, initialised and cleared again and again |
| `ListNode` | `ListNode.hpp` pointer by pointer |
| `NodeSequences` | what `ListNode` promises: sequences |
| `Zone` | `Zone.cpp`, as operators on a zone |
| `ZoneAllocator` | the variables and actions of `ZoneAllocator.cpp`; what the page allocator answers is a parameter of the actions that ask it |
| `ZonesOverPool` | those actions over `PagePool`, and their client |
| `Allocator` | those actions over `PageAllocator`, as the facade `allocator.cpp` composes them, and its caller |
| `Utils` | `utils.hpp` and the sizes derived with it, on words of bits |
| `Heap` | what the library promises its caller: blocks that do not overlap and stay where they are |
| `MCPageAllocator`, `MCRegionInfo`, `MCListNode`, `MCZonesOverPool`, `MCAllocator`, `MCUtils` | instances for TLC |
| `PageAllocatorInvariant`, `MCPageAllocatorInvariant` | the inductive invariant of `PageAllocator`, and its instance for TLC |
| `PageRegionsInvariant`, `MCPageRegions` | the same for what depends on regions that do not touch |
| `ZonesOverPoolInvariant` | the invariants the proofs about `ZonesOverPool` need |
| `AllocatorInvariant`, `MCAllocatorInvariant` | the inductive invariant of `Allocator`, and its instance for TLC |
| `BasicFacts` | lemmas on numbers, finite sets and sequences, for all proofs about allocators |
| `PageAllocatorProofs`, `PageRegionsProofs` | theorems about the page allocator, bottom up |
| `ZonesOverPoolProofs` | theorems about the zone allocator, bottom up |
| `AllocatorProofs` | theorems about the library, from those about its two allocators |
| `ListNodeProofs`, `RegionInfoProofs` | theorems about the links, and about what is kept of a region |
| `UtilsProofs` | theorems about rounding, and about who serves which size |

`PageAllocator` extends `FreeLists` (which extends `PageGroup`) and
`RegionInfo`.  It treats a free list as a sequence; `ListNode` shows that the
pointers implement sequences.  `ZoneAllocator` extends `Zone` and has no
specification of its own.  The chain of refinements is

    Allocator  implements  ZonesOverPool  implements  Heap
    PageAllocator  implements  PagePool
    ListNode  implements  NodeSequences

`ZonesOverPool` finds its pages with `PagePool!FreeRuns`, in any order, and is
small enough for instances with many sizes.  `Allocator` instantiates
`PageAllocator` and runs it step by step; that it implements `ZonesOverPool`
(run `allocator`, theorem `ZonesOverPoolImplemented`) says that the zone allocator gets
from it all it was checked with.  The page allocator keeps that promise only for regions that do not touch, and
its descriptors stay out of the clients' pages only if the first region can hold
them: the runs that disagree say why.

### The page allocator, state and actions

A page is the index of its descriptor: `nextSibling` is `+ 1`, `m_pagesHead` is
page 0 and `m_pagesTail` is page `pagesCount - 1`.  The fields of the
descriptors are functions over the table, which grows while `init` writes it:
`address` (`m_addr`), `pool.groupSize` and `pool.used` (`m_flags`).
`pool.lists` is `m_freeGroupLists`, counted from 0, and `pool.freePagesCount`
is `m_freePagesCount`.  `regionsInfo` is the part of `m_regionsInfo` that
`m_validRegionsCount` covers, counted from 1, so that `descRegionIdx` is
`m_descRegionIdx + 1`.  The memory the descriptors themselves take is given by
their number and `PageDescSize`.

`init` and `release` are loops over a table the loop rewrites, so they run one
iteration per step; `phase` names the loop.

| Action | Code |
| --- | --- |
| `Clear` | `clear` |
| `InitRejectsPageSize`, `InitStart` | `init` up to its first loop |
| `ScanRegion`, `TooManyRegions` | one iteration of the first loop |
| `NoUsablePages`, `ScanDone` | from there to the second loop |
| `SetupRegion` | one iteration of the second loop, with the page loop in it |
| `Allocate`, `AllocateFails` | `allocate` |
| `Release`, `ReleaseNull` | `release` up to its first loop |
| `JoinAbove`, `NothingAbove` | an iteration of the first loop that joins, and the one that leaves |
| `JoinBelow`, `FinishRelease` | the same of the second loop, and the final `addGroup` |

The client calls anything at any time between two calls, with the region
arrays, page sizes and counts of the configuration, and releases only groups
it holds: releasing anything else is outside what the library handles.  `held`
and `reply` are ghost variables for what it holds and what it was told.

`allocate` is one step.  Its two nested loops only read until they find a
group; `firstFit` says where they stop.

`getPage`, `getStats` and the other queries change no state and are operators.
`getStats` adds sizes up with `std::accumulate` from `0U`, so each partial sum is
an `unsigned int`: `accumulate` cuts it to `UnsignedBits`.

### The zone allocator, state and actions

A zone is known by the address of its descriptor, as in the code, where a
`Zone*` is the address of a chunk; `initialZone` stands for `&m_initialZone`,
which is no chunk.  `zones` maps it to the fields of `Zone`, for the zones that
are in a list: `clear` of a zone takes it out of the domain.  `zoneLists` and
`freeChunks` are the two fields of `m_zones`.  Addresses are numbers, page `p`
is at `p * pageSize`, so that a chunk and a page can have the same address, as
they can in the code.  In `ZonesOverPool`, `areas` and `pagesHeld` are the state of the
page allocator, as in `PagePool`; the areas of a configuration are the pages that
are left when its descriptors are stored.

`allocateZone` and `deallocateChunk` call themselves and change, in the inner
call, the lists the outer call reads.  Each call is a step.  `frames` is the
stack of calls of `allocateZone` (chunk size, and whether the test for a zone
of descriptors is behind it); `phase` is `"allocate"` while they go down and
come back, `"undo"` in a `deallocateChunk` that a failed `allocateZone` called,
and `"release"` in one that `release` called.

| Action | Code |
| --- | --- |
| `Clear` | `clear` |
| `InitRejected` | facade `init`, when the page allocator refuses |
| `InitFails`, `InitSucceeds(size, page)` | `ZoneAllocator::init` |
| `AllocateNothing`, `AllocatePages`, `AllocateChunk` | `allocate` that calls no `allocateZone` |
| `AllocateThrows` | `m_zones.at(idx)` outside the array |
| `AllocateStart` | `allocate` up to the first call of `allocateZone` |
| `AllocateDescZone` | the test of `allocateZone` and its call of itself |
| `AddZone(page)` | the rest of `allocateZone` with `initZone` and `addZone`; in the outermost call `allocateChunk` too |
| `ZoneFails` | the rest of `allocateZone` when no page is left |
| `Release`, `ReleaseNull` | `release` up to `deallocateChunk` |
| `GiveChunk` | a call of `deallocateChunk` that ends, and what follows in its caller |
| `RemoveZone` | a call that removes its zone and calls itself |
| `NotInZones` | a call that finds no zone; `release` asks for the page and releases it |

The client releases only what it holds, and allocates only after an `init` that
succeeded.  The rounding in `chunkSize` is given by its meaning here and by its
shifts in `Utils`: where a zone uses the result the size is below the page size,
far from 2^32 where `roundPowerOf2` stops working, and elsewhere the result is only
compared (`PagesForLargeSizes`).  `before` is a ghost variable, the state
`FailedAllocationUndone` compares with.

### The library, state and actions

`Allocator` has the variables of both allocators.  A page of `ZoneAllocator` is its
number, address divided by page size; a page of `PageAllocator` is the index of its
descriptor: `pageNumber` and `groupOf` translate, as `Page::address` does.
`initializing` keeps the page size while `init` runs.

| Action | Code |
| --- | --- |
| `ClearBoth` | `clear` |
| `InitRefusesPageSize`, `InitStart`, `PageStep` | `init` up to the end of `PageAllocator::init` |
| `InitWithoutPages`, `InitZoneAllocator` | the rest of `init`: the zone allocator is set up if the page allocator was, and takes a page for the initial zone |
| `AllocateFromPages` | `allocate` of a size served by pages |
| `AllocateFromZones`, `AllocateZone`, `ZoneStep` | `allocate` of any other size; `initZone` takes a page |
| `ReleaseBlock`, `ZoneStep`, `DropZone`, `ReleasePages`, `PageStep` | `release`; `clearZone` and `release` itself start `PageAllocator::release`, which then runs its loops |

A step of the zone allocator waits until the call of the page allocator it made
has returned (`PagesIdle`).  `init(start, end, pageSize)` builds an array of one
region, `boundaries`, and calls the other `init`.

## Runs

| Run | Shows |
| --- | --- |
| `pages_separated` | All properties of the page allocator, with regions that do not touch. |
| `pages_adjacent` | With regions that touch, groups grow across their border (so that an allocation may span both, against `PageAllocator.hpp:81`); the structure stays consistent and clients keep what they hold. |
| `region_info` | For all regions of an address space of 40 bytes that end before its last page, in pages of 4 and 8 bytes, exactly the whole pages are kept. |
| `list_node` | The pointers implement sequences, with four nodes and two lists. |
| `small_first_descriptors` | Disagreement: the descriptors are put in a region too small for them, and a client gets a page they overflow into. |
| `zones` | All properties of the zone allocator: zones allocated inside zones, failures, removals in chains, and requests that the table of zones is too short for in between. |
| `allocator` | Both allocators composed: calls return, nothing is lost, the statistics are exact, `ZonesOverPool` is implemented. |
| `utils` | The bit tricks on 64-bit words next to every power of two. |
| `adjacent_release` | Disagreement: a block at the start of a region that touches an earlier entry cannot be released. |
| `zone_large_pages` | Disagreement: with pages of 8192 bytes the real table is too short. |
| `wide_region` | Disagreement: the size of a region is cut to the width of `groupSize`. |
| `region_info_top` | Disagreement: for a region that ends at the end of the address space the assert on the aligned start fails. |

Each disagreement is a finding in `PROJECT.json`, with the line of the comment or
test the code disagrees with.  One more finding has no run of its own: what
`totalMemorySize` leaves out is stated by a property of `pages_separated`,
`TotalIsMemoryKept`.

Properties of `PageAllocator`:

- `GroupsConsistent` is `ListsInv` for the whole table, between any two
  iterations of any loop.
- `HeldIntact`: the sizes and the `used` flags of what a client holds are
  untouched, and it overlaps nothing else.
- `NoUnmergedNeighbours`: after a call, free groups do not touch inside a
  region.
- `DescriptorsReserved`: pages that overlap the descriptors in memory are used,
  and not held.
- `PageLookup`: `getPage` against its reference definition, for the first, the
  last and the next address of every page.
- `StatsExact`: the statistics count every byte of the regions kept once, and no
  difference wraps, as long as those regions together fit an `unsigned int`.  It
  says nothing of a region that `init` drops; `TotalIsMemoryKept` does.
- `TotalIsMemoryKept`: what a successful `init` leaves in `totalMemorySize` is the
  size of the array it was called with less the regions it dropped, and nothing of
  an earlier call.  This is not what the headers say ("Total size of the memory
  passed during initialization", `PageAllocator.hpp:52`, `allocator.hpp:44`), and is
  listed as a disagreement under "findings" of `PROJECT.json`: of the three regions
  of `MCThreeRegions` the one of 100 bytes is smaller than a page, and 856 of the
  956 bytes passed are counted.
- `AllocatedFromOneRegion`: after any joins, an allocation is in one region.
- `CallReturns`: the loops end.
- `ImplementsPagePool`: refinement of `PagePool`; in particular
  `AllocateFails` is a step only when no area has a free run of that length.
- `Inv` and `RegionsInv` are the invariants of the proofs below.

Properties of `ZonesOverPool`, those of `ZoneAllocator` among them:

- `ChunksOwned`: every chunk has one owner, between any two calls of the
  recursions, and a client's chunk has the size its request was rounded to.
- `PagesOwned`: the same for pages; none is shared or lost.
- `CountersAgree`: a zone is in the one list of its size, its counter is the
  length of its list of chunks, and the counter of a list is the number of chunks
  that are free in the zones of the list.
- `DescriptorLeft`: the asserts of `allocateZone` hold, since a chunk is always
  left for the next descriptor.  The code tests `== 1`, not `<= 1`, so this
  depends on every path through the recursions.
- `NoEmptyZone`: the last chunk of a zone takes the zone with it.
- `FailedAllocationUndone`: an `allocateZone` that fails restores pages, zones,
  lists (with their order) and counters, a zone of descriptors allocated on
  the way included.
- `RefusedOnlyWithoutPages`: `allocate` returns `nullptr` only if one page is
  missing, or one of two when a zone of descriptors is due.
- `AllocatedMemoryExact`: `allocatedMemorySize`, which `getStats` derives by subtraction,
  is what clients hold.
- `CallReturns`: the recursions end.
- `ImplementsHeap`: refinement of `Heap`.
- `Inv` and `FailureInv` are the invariants of the proofs below.

Properties of `Allocator`:

- `LibraryStatsExact`: `allocatedMemorySize` is the memory behind what the caller
  holds, `freeMemorySize` what is left in free pages and free chunks.
- `NothingLost`: when the caller holds nothing, one zone is left and every other
  page is free.
- `CallReturns`: through the loops and the recursions together.
- `ImplementsZonesOverPool`: refinement of `ZonesOverPool`.
- `Inv` is the invariant of the proofs below.

Properties of `Utils`:

- `PowersRecognized`: `isPowerOf2`, for 0 and the words with every bit set too.
- `RoundsUp`: `roundPowerOf2` up to 2^32, where its five shifts end.
- `PagesForLargeSizes`: `allocate` serves a size by pages exactly if it is more
  than half a page, even those `roundPowerOf2` gets wrong or wraps to 0.
- `ChunkFits`: any other size gets a chunk that is large enough, of 16 bytes or
  more, and for pages of up to 4096 bytes an entry of the table.

### Bounds

The instances have up to nine pages in two or three regions: enough for a group
to have free neighbours on both sides, to be split and joined more than once,
and to move between three lists.  `MaxGroupIdx` is 4 (20 in the code) and
`GroupSizeBits` 5 (21): sizes up to 31, so that nothing is cut; `WideRegion.cfg`
has 2 and 3, where nine pages are cut to one.  `MaxRegionsCount` is 3 (8), and
one array has four regions.  Page sizes are 128, the smallest, and 256; 64 and
192 are refused.  A descriptor has 32 bytes, as on a 64-bit target, so that the
descriptors of a region take one to three pages, fill their region exactly in
one array, and leave room in the others.  Two regions are unaligned, one is too
small, one holds no aligned page.

The zone instances have pages of 128 bytes with 16 bytes as the smallest size
and a `Zone` of 56 bytes, as on a 64-bit target.  A zone of descriptors then has
two chunks, of which one must stay free: every second zone needs another zone of
descriptors, and three pages already reach the recursion, its failure at both
depths, and removals that empty one zone after the other.  The sizes of
`ZonesOverPool.cfg` are zero, one below the descriptor size (four chunks to a
zone), one that shares the descriptors' zones, one rounded up to a whole page
of 128 bytes and one of two such pages.  `MaxZoneIdx` is 3 (8 in the code): for
pages of 256 bytes that is the shortage that 8192 bytes are for the real table, with
few enough chunks to explore; `ZoneLargePages.cfg` has the real numbers.

`Allocator.cfg` has four memory models for pages of 128 bytes (and the same ones
for 256, and 64, which is refused): one unaligned region that leaves four pages,
two regions of two pages, one page that its descriptor fills, so that `init` fails
with the page allocator set up, and no region.  Four pages are enough for a chain of
two zones next to a client's run, and for a refused second page.
`PoolModels` gives the pages that are left, which the refinement checks.
`AdjacentRelease.cfg` has two regions that touch, the first filled by the
descriptors, and a third one for the initial zone, so that a caller's first block is
at the border.

`UnsignedBits` is 10 (32 in the code) in `PageAllocatorSeparated.cfg`, so that the
sum of one memory model is cut, and 12 in the others, where none is.  `Utils.cfg`
has the real width, 64 bits, and all words with at most two bits set or with one run
of bits set: every power of two, its neighbours and all sums of two of them.

The models have no counter without a bound: the table is bounded by the region
arrays, zones and chunks by the pages, everything else by these.

### Fairness

`FairSpec` adds weak fairness of `Step`, the steps inside a running call: a
call is run by the thread that made it and nothing in the library waits.
The calls of the recursions in `ZoneAllocator` are such steps too, and in
`Allocator` the loops of a call of the page allocator one of them made.  There is no
fairness of calls.

### Deadlock

The client can always call `clear`, so deadlock is checked
everywhere except in `RegionInfoTop.cfg`, where a failed assert ends the program.

## Proofs

| Theorem | Module | States | For all |
| --- | --- | --- | --- |
| `InvCorrect`, `TypeCorrect`, `GroupsCorrect`, `HeldCorrect` | `PageAllocatorProofs` | `Inv`, `TypeOK`, `GroupsConsistent`, `HeldIntact` | region arrays, page sizes, numbers of lists and of regions |
| `RegionsCorrect`, `NoUnmergedNeighboursCorrect`, `AllocatedFromOneRegionCorrect`, `PageLookupCorrect`, `StatsCorrect` | `PageRegionsProofs` | `RegionsInv`, `NoUnmergedNeighbours`, `AllocatedFromOneRegion`, `PageLookup`, `StatsExact` | the same, for regions that do not touch |
| `TotalCorrect` | `PageRegionsProofs` | the action property `TotalIsMemoryKept` | the same |
| `DescriptorsReservedCorrect` | `PageRegionsProofs` | `DescriptorsReserved` | the same, if the first region kept can hold the descriptors |
| `MemoryCorrect` | `PageRegionsProofs` | `MemoryInv` | the same as `Inv` |
| `ImplementsPagePoolCorrect` | `PageRegionsProofs` | the refinement `ImplementsPagePool` | the same, for regions that do not touch |
| `InvCorrect`, `TypeCorrect` | `ZonesOverPoolProofs` | `Inv`, `TypeOK` | page sizes, sizes of requests, of a descriptor and of the smallest chunk, lengths of the table, memories |
| `ChunksOwnedCorrect`, `PagesOwnedCorrect`, `CountersCorrect` | `ZonesOverPoolProofs` | `ChunksOwned`, `PagesOwned`, `CountersAgree` | the same |
| `DescriptorLeftCorrect`, `NoEmptyZoneCorrect`, `AllocatedMemoryCorrect` | `ZonesOverPoolProofs` | `DescriptorLeft`, `NoEmptyZone`, `AllocatedMemoryExact` | the same |
| `OriginCorrect` | `ZonesOverPoolProofs` | `OriginInv` | the same |
| `FailureCorrect`, `RefusedCorrect` | `ZonesOverPoolProofs` | `FailureInv`, `RefusedOnlyWithoutPages` | the same |
| `UndoneCorrect` | `ZonesOverPoolProofs` | the action property `FailedAllocationUndone` | the same |
| `BlocksCorrect`, `HeapCorrect` | `ZonesOverPoolProofs` | `BlocksApart`; the refinement `ImplementsHeap` | the same |
| `TypeCorrect`, `LinksCorrect`, `SequencesCorrect` | `ListNodeProofs` | `TypeOK`, `LinksAgree`; the refinement `ImplementsSequences` | finite sets of nodes, sets of lists |
| `InvCorrect` | `AllocatorProofs` | `Inv` | everything both allocators are proved for, with regions that do not touch |
| `PagesCorrect`, `ZonesOverPoolImplemented`, `HeapImplemented` | `AllocatorProofs` | the library contains a `PageAllocator`; the refinements `ImplementsZonesOverPool` and, through it, `Heap` | the same |
| `NothingLostCorrect`, `LibraryStatsCorrect` | `AllocatorProofs` | `NothingLost`, `LibraryStatsExact` | the same |
| `KeptCorrect`, `AssertsCorrect` | `RegionInfoProofs` | `KeepsWholePages`, `AssertsHold` | address spaces, page sizes, and regions that end before the address space does |
| `PowersCorrect`, `RoundingCorrect`, `PagesCorrect`, `ChunksCorrect` | `UtilsProofs` | the properties of `Utils` | widths of a word above 32, sizes, and page sizes up to 2^32 |

### Assumptions

`ConfigAssumption` and `AddrSpaceAssumption` give the
constants their types.  `MemoryModelsAssumption`: regions end before the address
space does, since the others fail an assert: their end wraps to zero, and
`alignedStart` returns no value above it (run `region_info_top`; `outcome` says
which assert failed).
`ListForEverySize`: there is one more bit for a size than there are lists after
the first, as with 21 and 20 in the code.  `NullAssumption` and `NullIsNoNode`:
`nullptr` is no page and no node; `FiniteNodes`: there are finitely many nodes.
`UseAssumption` gives the regions and page sizes of `RegionInfoUse` their types;
that no region ends at the last address is a hypothesis of `KeptCorrect` and
`AssertsCorrect` (`RegionsEnd`), refuted by `region_info_top` without it.
`PagesFit`: the pages of all regions of an
array can be counted by the `groupSize` field; without it `wide_region` refutes
the claim.  `RegionsApart`: between any two regions `init` keeps lies a page, or part
of one; for regions that touch, `adjacent_release` refutes `NothingLost`, and
`release` joins pages of two regions.  `DescriptorsFit`, that the first region kept can
hold the descriptors of all pages, is a hypothesis of
`DescriptorsReservedCorrect` only, since `init` falls back to that region;
`small_first_descriptors` refutes the claim without it.  `UnsignedRange`: the number of values of an
`unsigned int` is a positive number.  `WordsAssumption`: a page is larger
than the minimal chunk and no larger than 2^32, chunks start at 16 bytes, and the
table of zones has eight entries.

Of the zone allocator: `SizesAssumption` gives the constants their types;
`NamesAssumption`: neither `nullptr` nor `&m_initialZone` is the address of a chunk,
since the initial zone's descriptor is a field of `ZoneAllocator`.
`PoolsAssumption`: the areas of a memory do not overlap, and page 0 is not in one,
because its address is `nullptr`.  `ChunksFit`: chunks have
at least 16 bytes, as `minimalAllocSize` has and as `toIdx` needs, which takes 4
off the logarithm; a page is no larger than the highest power of two an
address can hold, as page sizes are powers of two; and a page holds at least two
descriptors whose list is in the table, as the smallest page of 128 bytes does with
a `Zone` of 56.  `ChunksFillPages`: a chunk size below the page size divides it, since
both are powers of two.  That requests may have any size is not restricted: those without
an entry in the table throw (`AllocateThrows`).

Of the library: `PagesAssumption` and `ZonesAssumption` collect the assumptions above,
each for the instance of its allocator, so the theorems of `AllocatorProofs` hold
for memories of regions that do not touch.  The page sizes the zone allocator sees are
those `PageAllocator::init` accepts (`validPageSizes`), and the page allocator is asked for
the numbers of pages these make of the sizes of requests (`PageCounts`).
`PoolsLeft` ties the memories to the pools of the zone allocator: `PoolModels`
has, for each page size, what `init` leaves of every memory when its descriptors are
stored.  It restricts nothing but the choice of `PoolModels`.

`PowersOfTwo`, in both allocators, is arithmetic the provers have no theory for, and so
are `UnsignedRange` and `ChunksFillPages`; TLC evaluates them for the numbers of each
run.

### The page allocator

`GroupsConsistent` is not inductive: `release` reads sizes of
groups it finds through the `used` flags of its neighbours, `init` writes
descriptors for entries it counted in an earlier loop, and `HeldIntact` says
nothing of the group that holds the page descriptors.  `Inv` adds what each
loop knows: `ScanInv` (the counts so far are those of the regions seen, so that
the table cannot outgrow `SizeLimit`), `SetupInv` (the descriptors before the
cursor are written), `ReleaseInv` (the joined group is nobody's),
`IdleInv` (the table is complete) and `HeldInv` (a client's group has the size
it asked for and is not the reserved one).  `Inv`, of which `TypeOK` is the first
conjunct, is checked by TLC as well (run `pages_separated`).

The proof goes up the layers of the code.  It says first which
descriptors `splitGroup` and `joinGroup` change, and to what; then what each of
`addGroup`, `removeGroup`, `splitGroup` and
`joinGroup` does to `ListsInv(pool, taken, pages)`: for example, that
`removeGroup` of a free group moves it to `taken`; and then it combines
these into the bodies of the loops: writing a region, reserving the
descriptors, taking pages, absorbing a neighbour.  On top are one lemma per
action, and the sums that bound the table.

What depends on the regions needs more.  `NoUnmergedNeighbours` says nothing of
the middle of `release`, where a group is taken out of its list and its neighbours
have been joined on one side only; and `release` compares regions by `getRegion` of
addresses, so that nothing holds unless the addresses in the table
are those of the regions.  `RegionsInv` has

- `ScanRegionsInv`: each entry of `m_regionsInfo` is a region of the array that was
  kept, the entries do not touch, and the first one is the first region kept, to
  which `chooseDescRegion` falls back;
- `TableInv`: the pages of the regions tile the table, in any order, and have
  the addresses of their region; the region with the descriptors starts with the
  group that is reserved for them;
- `GroupsInv`: every region starts a group, so that no group has pages of two
  regions, and the page before a free group is used or in another region.  While
  `release` looks below, the joined group is one more group to say that of.

`getPage` then finds the region of an address, since no other one contains it, and
the page in it by division (`Lookup`).  `ReservedPages` counts the bytes of the
descriptors against those of the pages in front of their region.

For `ImplementsPagePoolCorrect` the areas are what `TableInv` places, less the
reserved pages: in `init` the areas are unknown until the last `SetupRegion`, which
provides them; `Allocate` takes a run that lies in one area; a group that is
being released is given back at once, and its caller is told by
`FinishRelease`.  What is hard is `AllocateFails`, a step only if no area has a free
run that is long enough.  A run of free pages lies in one group: wherever it
crossed a border of groups, the group above would be free and the page below it used,
or in another region (`FreeRunInGroup`).  So there is a free group of at least
that size, it is in the list of its size, and `firstFit` looks at that
list and those above.

### The statistics

A sum over a set, as the provers see `MapThenSumSet` or `std::accumulate`, is a
recursive function, and the library's induction theorems cannot be used.  `BasicFacts`
therefore states a sum as the cardinality of a set: `Weight(f, S)` counts the pairs of an
element `i` of `S` and a number in `1..f[i]`.  That the recursive sum is this number
(`SumIsWeight`, `AccumulateExact`) is shown by contradiction, from a smallest set or
the first position for which it fails.  Sums are then compared by what is counted:

- In `PageAllocator`, the whole pages of all regions are the pages of the table
  (`PagesSummed`), and these are free, held or reserved (`PagesSplit`), of which
  `freePagesCount` counts the free ones (`GroupsConsistent`).  `RegionsInv` has for that
  that the `size` of an entry is what lies between its ends, and that its
  whole pages are no more than that.  No sum is cut, as none is more than the total.
- For `TotalIsMemoryKept` the entries are compared with the array `init` was called
  with, which is forgotten when it returns.  `SizesInv` says that while `init` scans,
  the entries made so far weigh as much as the regions kept before the cursor, and
  while it writes descriptors, as much as all that are kept; its last step changes no
  size.  Nothing of it holds unless `clear` has emptied `m_regionsInfo` first.
- In `ZonesOverPool`, the chunks of a zone fill its page, each of them is free, a
  descriptor or a client's (`OwnersOK`), and the counters of the lists are what is free
  (`Consistent`).  What is left when the sums of free chunks and of descriptors are
  taken from that of the pages is what clients hold.

### The zone allocator

None of the properties is inductive.  `ChunksOwned` does not say that a descriptor
lies in a zone of descriptors, so nothing would keep a removed zone from holding the
descriptor of another.  `DescriptorLeft` does not say why the test `== 1` suffices:
two chunks are needed between the inner `allocateZone` and the outer one.
`NoEmptyZone` fails inside a call, since the zone of descriptors that the inner
`allocateZone` adds is unused until the outer one takes its chunk.
`Inv` has

- `Consistent`: each zone is well formed, its free chunks are its own and each in
  the list once; each list has the zones of its size; each counter is the number
  of free chunks there;
- `OwnersOK`: descriptors lie in zones of descriptors, free chunks are nobody's, every
  other chunk is a descriptor, a client's or on its way back;
- `RunsOK` and `PagesOwned`: the runs lie in the areas and do not overlap, and each
  is one zone's or one client's;
- `FullZones`: only the zone of descriptors that `allocateZone` has just added is
  unused, and it is the head of its list;
- for each phase, what the call knows: `FramesOK` (the three stacks of calls there
  can be), `AllocateInv` (at least one free descriptor, two after the inner call),
  `DeallocateInv` (what is given back is a descriptor, a client's chunk, or the first
  page of a run).

`ZonesOverPoolProofs` starts with the geometry of chunks (two chunks of a page are apart,
chunks of two pages differ), and says, as operations on values, what taking a
chunk, giving one back, adding a zone and removing one do to `Consistent` and
to the owners of chunks and pages.  Then it has one lemma for each
action and part of `Inv`.  What a caller sees comes last:

- `FailureInv` follows an `allocateZone` that fails.  It names the state
  before it (`before`) and says how the present one differs: by a descriptor that was
  taken, or by a zone of descriptors that was added, unused or with its first chunk
  taken.  Giving that back is the exact inverse, order of the lists included, so
  `FailedAllocationUndone` holds of the last step.  It also remembers whether
  a second page was due, which is what `RefusedOnlyWithoutPages` is about.
- `BlocksApart` follows from `Inv`: two chunks, a chunk and a run, or two runs do not
  overlap as ranges of addresses.
- `HeapCorrect` maps each action to a step of `Heap` or to a stutter, with `held` as
  the heap's blocks; that a new block overlaps no other is `BlocksApart` after the step.

`OriginInv` is not needed for any of this, but for the library.  `NoCycle` says that
of any set of zones one has its descriptor in a zone outside the set: a chain of
removals could otherwise leave two zones that hold each other's descriptors, never
empty and never found again.  `RunsMeasured` says that a run of pages is as long as its
client's size takes, which no list records.

### The library

`Allocator` has all that can go wrong in `PageAllocator` and in `ZoneAllocator`, and
one thing more: that they disagree about the pages between them.  `Inv` has

- the invariants of both, `PA!Inv`, `PA!RegionsInv`, `ZA!Inv`, and their additions
  `PA!MemoryInv` and `ZA!OriginInv`.  `MemoryInv` says that the regions in
  `m_regionsInfo` are those of one memory `init` was given, so that the pages that
  are left are one of the pools the zone allocator is proved for (`AreasLeft`);
- `InitializingInv`: what `init` knows before and between the loops of
  `PageAllocator::init` and when they have returned;
- `InitializedInv`: there are zones only while there are pages, of the same size, and the
  page allocator then runs for nothing but a `release`.

`PA` is an instance of the page allocator's theorems and `ZA` one of the zone
allocator's, in which pages are the numbers of those in `PA` (`zoneAreas`, `zonePages`).
Theorems about an instance can be cited, but the provers do not see that two
instances of one definition are the same: the first and the last group of lemmas
(`Pages...`, `Zones...`, `Pool...`) expand both until they do.

`Moves` is what every action is shown to be: for `PA` a step or a stutter, for
`ZA` a step or a stutter, and the ties of both are kept.  From it follow `InvCorrect`,
`PagesCorrect` and `ZonesOverPoolImplemented`, and all theorems about either allocator
hold of the library.  It needs the translation of pages between them:

- a page of `PA` and its number determine each other (`Numbers`), and the
  pages of an area have consecutive numbers in both: so a run is free for one exactly if it is for the other
  (`FreeRunsSeen`);
- `allocate` takes such a run, or there is none (`RunTaken`, `RunRefused`); a run is given back
  as soon as `release` starts, and the loops that join it change nothing the zone
  allocator knows (`RunGiven`, `PagesStay`);
- `release` finds a client's run by its address (`PageFound`).

`HeapImplemented` is `HeapCorrect` for the `ZonesOverPool` inside the library.

For `NothingLost`, let a client hold nothing.  A zone with a descriptor of its own then has
a chunk in use, which can only be the descriptor of another zone.  So all zones with
descriptors have one of these each, no two the same one, and by `NoCycle` there is one
that none of them has: more zones than descriptors, unless there are none
(`OnlyInitialZone`).  What is left is the initial zone with its one page, and all other
pages are free (`FreePages`).

For `LibraryStatsExact` `StatsExact` and `AllocatedMemoryExact` are not enough: the page allocator
counts the zones' pages as used, the zone allocator knows nothing of runs, and
`allocator.cpp` subtracts one from the other.  `HandedOut` says that the pages not free
are those of the runs held, counted as in `Weight`; the zones' runs have one page each, so they are
what the zone allocator calls used (`ZonePagesSize`); the others are the clients', as
many as their sizes take by `RunsMeasured` (`BlockPagesSize`).  What is left of the
difference is the chunks and the runs clients hold (`ClientBytes`), and every
difference of the code is between numbers of which the second is part of the first.

### Links, regions and bits

`LinkInv` (`TypeOK` and `LinksAgree`) is inductive as it stands.  It does not say
that a list ends: links that agree could also close to a ring that no `head`
leads to.  `ChainInv` therefore says for each list that some sequence without
repetitions follows the links from `head` to the null pointer and has all nodes of the
list.  There is only one (`OneChain`, by the first place where two of them
differ), so it is the value of `lists`, and inserting into or removing from
that sequence is what the pointers do (`ChainAdd`, `ChainRemove`).

For `KeptCorrect`, the first multiple of the page size in a region and the last one
(`MultiplesBetween`) are `alignedStart` and `alignedEnd`, as none of the sums wraps;
the pages between them are an interval of numbers (`PagesInRange`).

`UtilsProofs` goes by the bits.  A shift by `n` of a word in which every bit is
repeated at `n - 1` places doubles their number (`SmearDoubles`), so the five shifts
reach 31 places down (`SmearReach`); the carry then runs through all the ones
(`CarryRuns`).  `HalfPage` needs no more than that of sizes above 2^32: they have a
bit at or above that of the page size, and are compared before they are rounded.

### Only model-checked

Liveness: the three `CallReturns` need fairness, which the provers do not handle.
Every other property of a run that passes is stated by a theorem.

The theorems say nothing of regions that touch beyond `Inv`, `TypeOK`,
`GroupsConsistent`, `HeldIntact` and `MemoryInv`, of descriptors that do not fit their
region in `DescriptorsReserved`, nor of requests for sizes and memories
beyond the assumptions above; the disagreements show why.

## Not modelled

- `version()`, which returns a constant, and `movePtr`, which adds to an address
  (`chunks` of `Zone` is where it is used).
- The sums of `ZoneAllocator::getStats` start from `0U` as those of the page
  allocator do; they are modelled without the cut, which needs zones of more than
  4 GiB.
- The rounding of `double` in the page count of `allocate`: the sizes of the
  instances are exact in it, as all sizes below 2^53 are.
- The values of memory.  The library reads and writes only descriptors; that a
  client does not write to memory it does not hold is assumed.
- Calls outside the contract: releasing what is not held, releasing twice,
  regions that overlap, use after a failed `init`.
- Concurrency: the library has no locks and must be called from one thread.
- Start-up code, tests, demo and build scripts: no state of the library.
