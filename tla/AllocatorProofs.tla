---------------------------- MODULE AllocatorProofs ----------------------------
(***************************************************************************)
(* Theorems about Allocator, from those about its two allocators.          *)
(***************************************************************************)
EXTENDS AllocatorInvariant, BasicFacts, TLAPS

(***************************************************************************)
(* Allocator's own instances of the two allocators and those with the      *)
(* theorems are of the same definitions.  The provers do not know until    *)
(* all of them are expanded, which is all that these lemmas do.            *)
(***************************************************************************)

LEMMA PagesInit == Pages!Init <=> PA!Init
  BY DEF Pages!Init, PA!Init, Pages!NoPages, PA!NoPages, Pages!EmptyLists,
         PA!EmptyLists, Pages!NoRequest, PA!NoRequest, Pages!NoReply,
         PA!NoReply, Pages!ListIdx, PA!ListIdx, Pages!Reply, PA!Reply

LEMMA PagesClear == Pages!Clear <=> PA!Clear
  BY DEF Pages!Clear, PA!Clear, Pages!clear, PA!clear, Pages!Reply, PA!Reply,
         Pages!NoPages, PA!NoPages, Pages!EmptyLists, PA!EmptyLists,
         Pages!ListIdx, PA!ListIdx

LEMMA PagesInitRejectsPageSize ==
    ASSUME NEW size
    PROVE  Pages!InitRejectsPageSize(size) <=> PA!InitRejectsPageSize(size)
  BY DEF Pages!InitRejectsPageSize, PA!InitRejectsPageSize,
         Pages!isValidPageSize, PA!isValidPageSize, Pages!clear, PA!clear,
         Pages!Reply, PA!Reply, Pages!NoPages, PA!NoPages, Pages!EmptyLists,
         PA!EmptyLists, Pages!ListIdx, PA!ListIdx

LEMMA PagesInitStart ==
    ASSUME NEW memory, NEW size
    PROVE  Pages!InitStart(memory, size) <=> PA!InitStart(memory, size)
  BY DEF Pages!InitStart, PA!InitStart, Pages!isValidPageSize,
         PA!isValidPageSize, Pages!clear, PA!clear, Pages!NoReply, PA!NoReply,
         Pages!NoPages, PA!NoPages, Pages!EmptyLists, PA!EmptyLists,
         Pages!Reply, PA!Reply, Pages!ListIdx, PA!ListIdx

LEMMA PagesScanRegion == Pages!ScanRegion <=> PA!ScanRegion
  BY DEF Pages!ScanRegion, PA!ScanRegion, Pages!regionKept, PA!regionKept,
         Pages!initRegionInfo, PA!initRegionInfo, Pages!pageCount,
         PA!pageCount, Pages!clearedInfo, PA!clearedInfo, Pages!RegionEnd,
         PA!RegionEnd, Pages!alignedStart, PA!alignedStart, Pages!alignedEnd,
         PA!alignedEnd, Pages!alignDown, PA!alignDown

LEMMA PagesTooManyRegions == Pages!TooManyRegions <=> PA!TooManyRegions
  BY DEF Pages!TooManyRegions, PA!TooManyRegions, Pages!InitReturns,
         PA!InitReturns, Pages!memoryVars, PA!memoryVars, Pages!NoRequest,
         PA!NoRequest, Pages!Reply, PA!Reply

LEMMA PagesNoUsablePages == Pages!NoUsablePages <=> PA!NoUsablePages
  BY DEF Pages!NoUsablePages, PA!NoUsablePages, Pages!countPages,
         PA!countPages, Pages!InitReturns, PA!InitReturns, Pages!memoryVars,
         PA!memoryVars, Pages!total, PA!total, Pages!Cardinality,
         PA!Cardinality, Pages!pageCounts, PA!pageCounts, Pages!NoRequest,
         PA!NoRequest, Pages!Reply, PA!Reply

LEMMA PagesScanDone == Pages!ScanDone <=> PA!ScanDone
  BY DEF Pages!ScanDone, PA!ScanDone, Pages!countPages, PA!countPages,
         Pages!chooseDescRegion, PA!chooseDescRegion, Pages!total, PA!total,
         Pages!Cardinality, PA!Cardinality, Pages!pageCounts, PA!pageCounts

LEMMA PagesReserveDescPages ==
    ASSUME NEW info
    PROVE  Pages!reserveDescPages(info) = PA!reserveDescPages(info)
  BY DEF Pages!reserveDescPages, PA!reserveDescPages, Pages!Cardinality,
         PA!Cardinality

LEMMA PagesWriteRegion ==
    ASSUME NEW m, NEW first, NEW count
    PROVE  Pages!writeRegion(m, first, count) = PA!writeRegion(m, first, count)
  BY DEF Pages!writeRegion, PA!writeRegion, Pages!initPages, PA!initPages,
         Pages!withSizes, PA!withSizes, Pages!initGroup, PA!initGroup,
         Pages!setGroupSize, PA!setGroupSize, Pages!SizeLimit, PA!SizeLimit

LEMMA PagesAddGroup ==
    ASSUME NEW m, NEW group
    PROVE  Pages!addGroup(m, group) = PA!addGroup(m, group)
  BY DEF Pages!addGroup, PA!addGroup, Pages!groupIdx, PA!groupIdx,
         Pages!Cardinality, PA!Cardinality, Pages!setUsed, PA!setUsed,
         Pages!Group, PA!Group

LEMMA PagesWithDescRegion ==
    ASSUME NEW m, NEW first, NEW count, NEW reserved
    PROVE  Pages!withDescRegion(m, first, count, reserved) =
              PA!withDescRegion(m, first, count, reserved)
  BY PagesAddGroup, PagesWriteRegion, Zenon
     DEF Pages!withDescRegion, PA!withDescRegion, Pages!withUsed, PA!withUsed,
         Pages!setUsed, PA!setUsed, Pages!withSizes, PA!withSizes,
         Pages!splitGroup, PA!splitGroup, Pages!initGroup, PA!initGroup,
         Pages!clearGroup, PA!clearGroup, Pages!setGroupSize, PA!setGroupSize,
         Pages!SizeLimit, PA!SizeLimit, Pages!Group, PA!Group

LEMMA PagesSetupRegion == Pages!SetupRegion <=> PA!SetupRegion
  BY PagesAddGroup, PagesWriteRegion, PagesWithDescRegion, PagesReserveDescPages, Zenon
     DEF Pages!SetupRegion, PA!SetupRegion, Pages!nextPage, PA!nextPage,
         Pages!InitReturns, PA!InitReturns, Pages!NoRequest, PA!NoRequest,
         Pages!Reply, PA!Reply, Pages!Cardinality, PA!Cardinality

LEMMA PagesAllocate ==
    ASSUME NEW count
    PROVE  Pages!Allocate(count) <=> PA!Allocate(count)
  BY DEF Pages!Allocate, PA!Allocate, Pages!searched, PA!searched,
         Pages!firstFit, PA!firstFit, Pages!takePages, PA!takePages,
         Pages!AllocReply, PA!AllocReply, Pages!memoryVars, PA!memoryVars,
         Pages!ListIdx, PA!ListIdx, Pages!groupIdx, PA!groupIdx,
         Pages!Cardinality, PA!Cardinality, Pages!fits, PA!fits,
         Pages!removeGroup, PA!removeGroup, Pages!withSizes, PA!withSizes,
         Pages!splitGroup, PA!splitGroup, Pages!addGroup, PA!addGroup,
         Pages!setUsed, PA!setUsed, Pages!Group, PA!Group, Pages!RemoveAt,
         PA!RemoveAt, Pages!position, PA!position, Pages!initGroup,
         PA!initGroup, Pages!clearGroup, PA!clearGroup, Pages!setGroupSize,
         PA!setGroupSize, Pages!SizeLimit, PA!SizeLimit

LEMMA PagesAllocateFails ==
    ASSUME NEW count
    PROVE  Pages!AllocateFails(count) <=> PA!AllocateFails(count)
  BY DEF Pages!AllocateFails, PA!AllocateFails, Pages!searched, PA!searched,
         Pages!fits, PA!fits, Pages!AllocReply, PA!AllocReply,
         Pages!memoryVars, PA!memoryVars, Pages!ListIdx, PA!ListIdx,
         Pages!groupIdx, PA!groupIdx, Pages!Cardinality, PA!Cardinality

LEMMA PagesRelease ==
    ASSUME NEW group
    PROVE  Pages!Release(group) <=> PA!Release(group)
  BY DEF Pages!Release, PA!Release, Pages!NoReply, PA!NoReply,
         Pages!memoryVars, PA!memoryVars, Pages!Reply, PA!Reply

LEMMA PagesJoinAbove == Pages!JoinAbove <=> PA!JoinAbove
  BY DEF Pages!JoinAbove, PA!JoinAbove, Pages!joinable, PA!joinable,
         Pages!lastAbove, PA!lastAbove, Pages!absorb, PA!absorb,
         Pages!memoryVars, PA!memoryVars, Pages!isValidPage, PA!isValidPage,
         Pages!getRegion, PA!getRegion, Pages!withSizes, PA!withSizes,
         Pages!removeGroup, PA!removeGroup, Pages!joinGroup, PA!joinGroup,
         Pages!regionsAt, PA!regionsAt, Pages!Min, PA!Min, Pages!groupIdx,
         PA!groupIdx, Pages!Cardinality, PA!Cardinality, Pages!setUsed,
         PA!setUsed, Pages!Group, PA!Group, Pages!RemoveAt, PA!RemoveAt,
         Pages!position, PA!position, Pages!initGroup, PA!initGroup,
         Pages!clearGroup, PA!clearGroup, Pages!alignDown, PA!alignDown,
         Pages!setGroupSize, PA!setGroupSize, Pages!SizeLimit, PA!SizeLimit

LEMMA PagesNothingAbove == Pages!NothingAbove <=> PA!NothingAbove
  BY DEF Pages!NothingAbove, PA!NothingAbove, Pages!joinable, PA!joinable,
         Pages!lastAbove, PA!lastAbove, Pages!memoryVars, PA!memoryVars,
         Pages!isValidPage, PA!isValidPage, Pages!getRegion, PA!getRegion,
         Pages!regionsAt, PA!regionsAt, Pages!Min, PA!Min, Pages!alignDown,
         PA!alignDown

LEMMA PagesJoinBelow == Pages!JoinBelow <=> PA!JoinBelow
  BY DEF Pages!JoinBelow, PA!JoinBelow, Pages!joinable, PA!joinable,
         Pages!lastJoined, PA!lastJoined, Pages!firstBelow, PA!firstBelow,
         Pages!absorb, PA!absorb, Pages!memoryVars, PA!memoryVars,
         Pages!isValidPage, PA!isValidPage, Pages!getRegion, PA!getRegion,
         Pages!withSizes, PA!withSizes, Pages!removeGroup, PA!removeGroup,
         Pages!joinGroup, PA!joinGroup, Pages!regionsAt, PA!regionsAt,
         Pages!Min, PA!Min, Pages!groupIdx, PA!groupIdx, Pages!Cardinality,
         PA!Cardinality, Pages!setUsed, PA!setUsed, Pages!Group, PA!Group,
         Pages!RemoveAt, PA!RemoveAt, Pages!position, PA!position,
         Pages!initGroup, PA!initGroup, Pages!clearGroup, PA!clearGroup,
         Pages!alignDown, PA!alignDown, Pages!setGroupSize, PA!setGroupSize,
         Pages!SizeLimit, PA!SizeLimit

LEMMA PagesFinishRelease == Pages!FinishRelease <=> PA!FinishRelease
  BY DEF Pages!FinishRelease, PA!FinishRelease, Pages!joinable, PA!joinable,
         Pages!lastJoined, PA!lastJoined, Pages!firstBelow, PA!firstBelow,
         Pages!addGroup, PA!addGroup, Pages!Reply, PA!Reply, Pages!memoryVars,
         PA!memoryVars, Pages!isValidPage, PA!isValidPage, Pages!getRegion,
         PA!getRegion, Pages!groupIdx, PA!groupIdx, Pages!Cardinality,
         PA!Cardinality, Pages!setUsed, PA!setUsed, Pages!Group, PA!Group,
         Pages!regionsAt, PA!regionsAt, Pages!Min, PA!Min, Pages!alignDown,
         PA!alignDown

LEMMA PagesStep == Pages!Step <=> PA!Step
  BY PagesScanRegion, PagesTooManyRegions, PagesNoUsablePages, PagesScanDone,
     PagesSetupRegion, PagesJoinAbove, PagesNothingAbove, PagesJoinBelow,
     PagesFinishRelease
     DEF Pages!Step, PA!Step

LEMMA PagesIsValidPageSize ==
    ASSUME NEW size
    PROVE  Pages!isValidPageSize(size) <=> PA!isValidPageSize(size)
  BY DEF Pages!isValidPageSize, PA!isValidPageSize

LEMMA PagesGetPage ==
    ASSUME NEW addr
    PROVE  Pages!getPage(addr) = PA!getPage(addr)
  BY DEF Pages!getPage, PA!getPage, Pages!getRegion, PA!getRegion,
         Pages!alignDown, PA!alignDown, Pages!Min, PA!Min, Pages!regionsAt,
         PA!regionsAt

LEMMA PagesReply ==
    ASSUME NEW op, NEW result
    PROVE  Pages!Reply(op, result) = PA!Reply(op, result)
  BY DEF Pages!Reply, PA!Reply

LEMMA PagesAreas == Pages!areas = PA!areas
  BY DEF Pages!areas, PA!areas, Pages!userPages, PA!userPages

LEMMA PagesGetStats == Pages!getStats = PA!getStats
  BY DEF Pages!getStats, PA!getStats, Pages!totalMemorySize,
         PA!totalMemorySize, Pages!effectiveMemorySize,
         PA!effectiveMemorySize, Pages!accumulate, PA!accumulate

LEMMA ZonesInitZones == InitZones <=> ZA!InitZones
  BY DEF InitZones, ZA!InitZones, Nothing, ZA!Nothing, EmptyLists,
         ZA!EmptyLists, NoChunks, ZA!NoChunks, NoReply, ZA!NoReply, ZoneIdx,
         ZA!ZoneIdx, Reply, ZA!Reply

LEMMA ZonesClear == Clear <=> ZA!Clear
  BY DEF Clear, ZA!Clear, Idle, ZA!Idle, clear, ZA!clear, Returns, ZA!Returns,
         Reply, ZA!Reply, Nothing, ZA!Nothing, EmptyLists, ZA!EmptyLists,
         NoChunks, ZA!NoChunks, NoCall, ZA!NoCall, ZoneIdx, ZA!ZoneIdx

LEMMA ZonesInitRejected == InitRejected <=> ZA!InitRejected
  BY DEF InitRejected, ZA!InitRejected, Idle, ZA!Idle, clear, ZA!clear,
         Returns, ZA!Returns, Reply, ZA!Reply, Nothing, ZA!Nothing,
         EmptyLists, ZA!EmptyLists, NoChunks, ZA!NoChunks, NoCall, ZA!NoCall,
         ZoneIdx, ZA!ZoneIdx

LEMMA ZonesInitFails ==
    ASSUME NEW size
    PROVE  InitFails(size) <=> ZA!InitFails(size)
  BY DEF InitFails, ZA!InitFails, Idle, ZA!Idle, clear, ZA!clear, Returns,
         ZA!Returns, Reply, ZA!Reply, Nothing, ZA!Nothing, EmptyLists,
         ZA!EmptyLists, NoChunks, ZA!NoChunks, NoCall, ZA!NoCall, ZoneIdx,
         ZA!ZoneIdx

LEMMA ZonesInitSucceeds ==
    ASSUME NEW size, NEW page
    PROVE  InitSucceeds(size, page) <=> ZA!InitSucceeds(size, page)
  BY DEF InitSucceeds, ZA!InitSucceeds, Idle, ZA!Idle, newZone, ZA!newZone,
         zoneDescChunkSize, ZA!zoneDescChunkSize, EmptyLists, ZA!EmptyLists,
         zoneDescIdx, ZA!zoneDescIdx, NoChunks, ZA!NoChunks, Nothing,
         ZA!Nothing, Returns, ZA!Returns, Reply, ZA!Reply, chunkSize,
         ZA!chunkSize, ZoneIdx, ZA!ZoneIdx, zoneIdx, ZA!zoneIdx, Cardinality,
         ZA!Cardinality, NoCall, ZA!NoCall, Min, ZA!Min

LEMMA ZonesIsForPages ==
    ASSUME NEW size
    PROVE  isForPages(size) <=> ZA!isForPages(size)
  BY DEF isForPages, ZA!isForPages, chunkSize, ZA!chunkSize, Min, ZA!Min

LEMMA ZonesPagesFor ==
    ASSUME NEW size
    PROVE  pagesFor(size) = ZA!pagesFor(size)
  BY DEF pagesFor, ZA!pagesFor

LEMMA ZonesAllocateNothing ==
    ASSUME NEW size
    PROVE  AllocateNothing(size) <=> ZA!AllocateNothing(size)
  BY DEF AllocateNothing, ZA!AllocateNothing, Idle, ZA!Idle, Initialized,
         ZA!Initialized, Returns, ZA!Returns, AllocReply, ZA!AllocReply,
         zoneVars, ZA!zoneVars, NoCall, ZA!NoCall, Nothing, ZA!Nothing

LEMMA ZonesAllocateThrows ==
    ASSUME NEW size
    PROVE  AllocateThrows(size) <=> ZA!AllocateThrows(size)
  BY DEF AllocateThrows, ZA!AllocateThrows, Idle, ZA!Idle, Initialized,
         ZA!Initialized, isForPages, ZA!isForPages, zoneIdx, ZA!zoneIdx,
         Cardinality, ZA!Cardinality, chunkSize, ZA!chunkSize, ZoneIdx,
         ZA!ZoneIdx, Returns, ZA!Returns, zoneVars, ZA!zoneVars, Min, ZA!Min,
         NoCall, ZA!NoCall, Nothing, ZA!Nothing

LEMMA ZonesAllocateChunk ==
    ASSUME NEW size
    PROVE  AllocateChunk(size) <=> ZA!AllocateChunk(size)
  BY Zenon DEF AllocateChunk, ZA!AllocateChunk, isForZones, ZA!isForZones,
         shouldAllocateZone, ZA!shouldAllocateZone, zoneIdx, ZA!zoneIdx,
         Cardinality, ZA!Cardinality, chunkSize, ZA!chunkSize, getFreeZone,
         ZA!getFreeZone, Returns, ZA!Returns, AllocReply, ZA!AllocReply,
         takeChunk, ZA!takeChunk, with, ZA!with, firstChunk, ZA!firstChunk,
         Idle, ZA!Idle, Initialized, ZA!Initialized, isForPages,
         ZA!isForPages, ZoneIdx, ZA!ZoneIdx, zoneDescIdx, ZA!zoneDescIdx, Min,
         ZA!Min, SelectInSeq, ZA!SelectInSeq, NoCall, ZA!NoCall, Nothing,
         ZA!Nothing, zoneDescChunkSize, ZA!zoneDescChunkSize

LEMMA ZonesAllocateStart ==
    ASSUME NEW size
    PROVE  AllocateStart(size) <=> ZA!AllocateStart(size)
  BY DEF AllocateStart, ZA!AllocateStart, isForZones, ZA!isForZones,
         shouldAllocateZone, ZA!shouldAllocateZone, zoneIdx, ZA!zoneIdx,
         Cardinality, ZA!Cardinality, chunkSize, ZA!chunkSize, NoReply,
         ZA!NoReply, zoneVars, ZA!zoneVars, Idle, ZA!Idle, Initialized,
         ZA!Initialized, isForPages, ZA!isForPages, ZoneIdx, ZA!ZoneIdx,
         zoneDescIdx, ZA!zoneDescIdx, Min, ZA!Min, Reply, ZA!Reply,
         zoneDescChunkSize, ZA!zoneDescChunkSize

LEMMA ZonesAllocatePages ==
    ASSUME NEW size, NEW page
    PROVE  AllocatePages(size, page) <=> ZA!AllocatePages(size, page)
  BY DEF AllocatePages, ZA!AllocatePages, Idle, ZA!Idle, Initialized,
         ZA!Initialized, isForPages, ZA!isForPages, Returns, ZA!Returns,
         AllocReply, ZA!AllocReply, with, ZA!with, pageAddr, ZA!pageAddr,
         zoneVars, ZA!zoneVars, chunkSize, ZA!chunkSize, NoCall, ZA!NoCall,
         Nothing, ZA!Nothing, Min, ZA!Min

LEMMA ZonesNeedsPage == NeedsPage <=> ZA!NeedsPage
  BY DEF NeedsPage, ZA!NeedsPage, needsDescZone, ZA!needsDescZone, descZone,
         ZA!descZone, frame, ZA!frame, zoneDescChunkSize,
         ZA!zoneDescChunkSize, shouldAllocateZone, ZA!shouldAllocateZone,
         zoneDescIdx, ZA!zoneDescIdx, getFreeZone, ZA!getFreeZone, chunkSize,
         ZA!chunkSize, zoneIdx, ZA!zoneIdx, Cardinality, ZA!Cardinality,
         SelectInSeq, ZA!SelectInSeq, Min, ZA!Min

LEMMA ZonesAddZone ==
    ASSUME NEW page
    PROVE  AddZone(page) <=> ZA!AddZone(page)
  BY Zenon DEF AddZone, ZA!AddZone, NeedsPage, ZA!NeedsPage, frame, ZA!frame,
         zoneIdx, ZA!zoneIdx, Cardinality, ZA!Cardinality, newZone,
         ZA!newZone, takeChunk, ZA!takeChunk, zoneDescIdx, ZA!zoneDescIdx,
         with, ZA!with, descZone, ZA!descZone, newDesc, ZA!newDesc,
         firstChunk, ZA!firstChunk, Returns, ZA!Returns, AllocReply,
         ZA!AllocReply, needsDescZone, ZA!needsDescZone, zoneDescChunkSize,
         ZA!zoneDescChunkSize, getFreeZone, ZA!getFreeZone, NoCall, ZA!NoCall,
         Nothing, ZA!Nothing, shouldAllocateZone, ZA!shouldAllocateZone,
         chunkSize, ZA!chunkSize, SelectInSeq, ZA!SelectInSeq, Min, ZA!Min

LEMMA ZonesZoneFails == ZoneFails <=> ZA!ZoneFails
  BY DEF ZoneFails, ZA!ZoneFails, NeedsPage, ZA!NeedsPage, descZone,
         ZA!descZone, takeChunk, ZA!takeChunk, zoneDescIdx, ZA!zoneDescIdx,
         newDesc, ZA!newDesc, needsDescZone, ZA!needsDescZone, getFreeZone,
         ZA!getFreeZone, zoneIdx, ZA!zoneIdx, Cardinality, ZA!Cardinality,
         zoneDescChunkSize, ZA!zoneDescChunkSize, firstChunk, ZA!firstChunk,
         frame, ZA!frame, shouldAllocateZone, ZA!shouldAllocateZone,
         SelectInSeq, ZA!SelectInSeq, chunkSize, ZA!chunkSize, Min, ZA!Min

LEMMA ZonesAllocateDescZone == AllocateDescZone <=> ZA!AllocateDescZone
  BY DEF AllocateDescZone, ZA!AllocateDescZone, needsDescZone,
         ZA!needsDescZone, zoneDescChunkSize, ZA!zoneDescChunkSize, frame,
         ZA!frame, zoneVars, ZA!zoneVars, shouldAllocateZone,
         ZA!shouldAllocateZone, zoneDescIdx, ZA!zoneDescIdx, chunkSize,
         ZA!chunkSize, zoneIdx, ZA!zoneIdx, Cardinality, ZA!Cardinality, Min,
         ZA!Min

LEMMA ZonesReleaseNull == ReleaseNull <=> ZA!ReleaseNull
  BY DEF ReleaseNull, ZA!ReleaseNull, Idle, ZA!Idle, Returns, ZA!Returns,
         Reply, ZA!Reply, zoneVars, ZA!zoneVars, NoCall, ZA!NoCall, Nothing,
         ZA!Nothing

LEMMA ZonesRelease ==
    ASSUME NEW addr
    PROVE  Release(addr) <=> ZA!Release(addr)
  BY DEF Release, ZA!Release, Idle, ZA!Idle, without, ZA!without, NoReply,
         ZA!NoReply, zoneVars, ZA!zoneVars, Reply, ZA!Reply

LEMMA ZonesFindZone ==
    ASSUME NEW addr
    PROVE  findZone(addr) = ZA!findZone(addr)
  BY DEF findZone, ZA!findZone, chunks, ZA!chunks, pageAddr, ZA!pageAddr

LEMMA ZonesEmptiesZone == EmptiesZone <=> ZA!EmptiesZone
  BY DEF EmptiesZone, ZA!EmptiesZone, Deallocating, ZA!Deallocating, findZone,
         ZA!findZone, isEmptied, ZA!isEmptied, chunks, ZA!chunks, pageAddr,
         ZA!pageAddr, givenBack, ZA!givenBack, giveChunk, ZA!giveChunk

LEMMA ZonesGiveChunk == GiveChunk <=> ZA!GiveChunk
  BY DEF GiveChunk, ZA!GiveChunk, Deallocating, ZA!Deallocating, findZone,
         ZA!findZone, zoneIdx, ZA!zoneIdx, Cardinality, ZA!Cardinality,
         isEmptied, ZA!isEmptied, givenBack, ZA!givenBack, DeallocateReturns,
         ZA!DeallocateReturns, chunks, ZA!chunks, pageAddr, ZA!pageAddr,
         giveChunk, ZA!giveChunk, Returns, ZA!Returns, AllocReply,
         ZA!AllocReply, Reply, ZA!Reply, NoCall, ZA!NoCall, Nothing,
         ZA!Nothing

LEMMA ZonesRemoveZone == RemoveZone <=> ZA!RemoveZone
  BY DEF RemoveZone, ZA!RemoveZone, EmptiesZone, ZA!EmptiesZone, findZone,
         ZA!findZone, zoneIdx, ZA!zoneIdx, Cardinality, ZA!Cardinality,
         givenBack, ZA!givenBack, without, ZA!without, RemoveFirst,
         ZA!RemoveFirst, Deallocating, ZA!Deallocating, isEmptied,
         ZA!isEmptied, chunks, ZA!chunks, pageAddr, ZA!pageAddr, giveChunk,
         ZA!giveChunk, RemoveAt, ZA!RemoveAt, SelectInSeq, ZA!SelectInSeq,
         Min, ZA!Min

LEMMA ZonesNotInZones == NotInZones <=> ZA!NotInZones
  BY DEF NotInZones, ZA!NotInZones, Deallocating, ZA!Deallocating, findZone,
         ZA!findZone, DeallocateReturns, ZA!DeallocateReturns, zoneVars,
         ZA!zoneVars, chunks, ZA!chunks, pageAddr, ZA!pageAddr, Returns,
         ZA!Returns, AllocReply, ZA!AllocReply, Reply, ZA!Reply, NoCall,
         ZA!NoCall, Nothing, ZA!Nothing

-----------------------------------------------------------------------------
(* The two allocators step by step.                                        *)

PagesInv == PA!Inv /\ PA!RegionsInv /\ PA!MemoryInv
ZonesInv == ZA!Inv /\ ZA!OriginInv

LEMMA InvIs ==
    Inv <=> PagesInv /\ ZonesInv /\ InitializingInv /\ InitializedInv
  BY DEF Inv, PagesInv, ZonesInv

LEMMA PagesStart == Pages!Init => PagesInv
  BY PagesInit, PA!InitInv, PA!InitRegions, PA!InitMemory,
     PagesAssumption DEF PagesInv

LEMMA PagesKept == PagesInv /\ (PA!Next \/ UNCHANGED pagesVars) => PagesInv'
<1> SUFFICES ASSUME PagesInv, PA!Next \/ UNCHANGED pagesVars PROVE PagesInv'
  OBVIOUS
<1>1. [PA!Next]_(PA!vars)
  BY DEF pagesVars, PA!vars
<1>2. PA!Inv'
  BY <1>1, PA!StepInv, PagesAssumption DEF PagesInv
<1>3. PA!RegionsInv'
  BY <1>1, PA!StepRegions, PagesAssumption DEF PagesInv
<1>4. PA!MemoryInv'
  BY <1>1, PA!StepMemory, PagesAssumption DEF PagesInv
<1> QED BY <1>2, <1>3, <1>4 DEF PagesInv

LEMMA ZonesKept == ZonesInv /\ (ZA!Next \/ UNCHANGED ZA!vars) => ZonesInv'
<1> SUFFICES ASSUME ZonesInv, ZA!Next \/ UNCHANGED ZA!vars PROVE ZonesInv'
  OBVIOUS
<1>1. [ZA!Next]_(ZA!vars)
  OBVIOUS
<1>2. ZA!Inv'
  BY <1>1, ZA!CallKeepsInv, ZA!StepKeepsInv, ZA!StutterKeepsInv, ZonesAssumption
     DEF ZonesInv, ZA!Next
<1>3. ZA!OriginInv'
  BY <1>1, ZA!NextOrigin, ZonesAssumption DEF ZonesInv
<1> QED BY <1>2, <1>3 DEF ZonesInv

\* What the zone allocator calls, as calls of the page allocator.
LEMMA PageCalls ==
    /\ Pages!Clear => PA!Next
    /\ \A size \in PageSizes :
          /\ Pages!InitRejectsPageSize(size) => PA!Next
          /\ \A memory \in MemoryModels : Pages!InitStart(memory, size) => PA!Next
    /\ \A count \in PageCounts :
          Pages!Allocate(count) \/ Pages!AllocateFails(count) => PA!Next
    /\ \A group \in DOMAIN groups : Pages!Release(group) => PA!Next
    /\ Pages!Step => PA!Next
  BY PagesClear, PagesInitRejectsPageSize, PagesInitStart, PagesAllocate,
     PagesAllocateFails, PagesRelease, PagesStep
     DEF PA!Next, PA!Call

-----------------------------------------------------------------------------
(* The pages of the page allocator as the zone allocator knows them.       *)

LEMMA ServingPages ==
    ASSUME Inv, Initialized
    PROVE  /\ PA!TableSet
           /\ pagesPhase \in {"idle", "above", "below"}
           /\ initializing = 0
           /\ pageSize = pagesPageSize
           /\ pageSize \in Nat \ {0}
           /\ pageSize \in validPageSizes
<1>1. /\ pagesPhase \in {"idle", "above", "below"} /\ initializing = 0
      /\ pagesCount > 0 /\ pageSize = pagesPageSize
  BY DEF Inv, InitializedInv, PagesReleasing
<1>2. PA!Parts /\ PA!RegionsInv
  BY PA!InvParts, PagesAssumption DEF Inv
<1>3. PA!TableSet
  BY <1>1, <1>2 DEF PA!TableSet, PA!TableKnown
<1>4. ZA!StartInv /\ ZA!Initialized
  BY DEF Inv, ZA!Inv, Initialized, ZA!Initialized
<1>5. pageSize \in Nat \ {0} /\ pageSize \in validPageSizes
  BY <1>4, ZA!PageSizeType, ZonesAssumption, Zenon
<1> QED BY <1>1, <1>3, <1>5

LEMMA NumberIs == ASSUME NEW g PROVE pageNumber(g) = PA!pageNumber(g)
  BY DEF pageNumber, PA!pageNumber

LEMMA Numbers ==
    ASSUME Inv, Initialized
    PROVE  /\ \A g \in PA!Page : /\ pageNumber(g) \in Nat
                                 /\ address[g] = pageNumber(g) * pageSize
                                 /\ groupOf(pageNumber(g)) = g
           /\ \A g, h \in PA!Page : pageNumber(g) = pageNumber(h) => g = h
<1>1. PA!TableSet /\ pageSize = pagesPageSize /\ pageSize \in Nat \ {0}
  BY ServingPages
<1>2. ASSUME NEW g \in PA!Page
      PROVE  pageNumber(g) \in Nat /\ address[g] = pageNumber(g) * pageSize
  <2>1. PICK i \in DOMAIN regionsInfo : g \in PA!regionPages(i)
    BY <1>1, PA!RegionOfPage, PagesAssumption
  <2> QED BY <1>1, <2>1, PA!PageNumber, NumberIs, PagesAssumption
<1>3. ASSUME NEW g \in PA!Page, NEW h \in PA!Page, pageNumber(g) = pageNumber(h)
      PROVE  g = h
  BY <1>1, <1>3, PA!NumberOfOne, NumberIs, PagesAssumption
<1>4. ASSUME NEW g \in PA!Page PROVE groupOf(pageNumber(g)) = g
  <2>1. groupOf(pageNumber(g)) =
           CHOOSE h \in PA!Page : address[h] = pageNumber(g) * pagesPageSize
    BY DEF groupOf, Pages!Page, PA!Page
  <2>2. \E h \in PA!Page : address[h] = pageNumber(g) * pagesPageSize
    BY <1>1, <1>2
  <2>3. PICK h \in PA!Page : /\ h = groupOf(pageNumber(g))
                             /\ address[h] = pageNumber(g) * pageSize
    BY <1>1, <2>1, <2>2
  <2>4. pageNumber(h) * pageSize = pageNumber(g) * pageSize
    BY <1>2, <2>3
  <2>5. pageNumber(h) = pageNumber(g)
    BY <1>1, <1>2, <2>4, SamePage
  <2> QED BY <1>3, <2>3, <2>5
<1> QED BY <1>2, <1>3, <1>4

LEMMA PagesSeen ==
    ASSUME Inv, Initialized
    PROVE  /\ zoneAreas = {PA!Numbered(a) : a \in PA!areas}
           /\ DOMAIN groups \subseteq PA!Page
           /\ DOMAIN zonePages = {pageNumber(g) : g \in DOMAIN groups}
           /\ \A g \in DOMAIN groups : /\ zonePages[pageNumber(g)] = groups[g]
                                       /\ groups[g] \in Nat \ {0}
           /\ \A n \in DOMAIN zonePages : /\ groupOf(n) \in DOMAIN groups
                                          /\ pageNumber(groupOf(n)) = n
<1>1. PA!TableSet
  BY ServingPages
<1>2. zoneAreas = {PA!Numbered(a) : a \in PA!areas}
  BY PagesAreas DEF zoneAreas, PA!Numbered, pageNumber, PA!pageNumber
<1>3. DOMAIN groups \subseteq PA!Page /\ \A g \in DOMAIN groups : groups[g] \in Nat \ {0}
  BY <1>1, PA!HeldNumbers, PagesAssumption, Zenon DEF Inv
<1>4. zonePages = [n \in {pageNumber(g) : g \in DOMAIN groups} |-> groups[groupOf(n)]]
  BY DEF zonePages
<1>5. \A g \in DOMAIN groups : groupOf(pageNumber(g)) = g
  BY <1>3, Numbers
<1> QED BY <1>2, <1>3, <1>4, <1>5

LEMMA FreeRunsSeen ==
    ASSUME Inv, Initialized, NEW n \in Nat \ {0}
    PROVE  ZA!Pages!FreeRuns(n) = {pageNumber(p) : p \in PA!Pool!FreeRuns(n)}
<1>1. PA!TableSet
  BY ServingPages
<1>2. /\ PA!Pool!Taken \subseteq PA!Page
      /\ \A g \in DOMAIN groups :
            /\ PA!pageNumber(g) \in Nat /\ groups[g] \in Nat \ {0}
            /\ PA!Numbered(PA!Pool!Run(g, groups[g]))
                  = PA!Pool!Run(PA!pageNumber(g), groups[g])
  BY <1>1, PA!HeldNumbers, PagesAssumption DEF Inv
<1>3. ASSUME NEW p, NEW k PROVE ZA!Pages!Run(p, k) = PA!Pool!Run(p, k)
  BY DEF ZA!Pages!Run, PA!Pool!Run
<1>4. ZA!Pages!Taken = PA!Numbered(PA!Pool!Taken)
  <2>1. ZA!Pages!Taken = UNION {PA!Pool!Run(m, zonePages[m]) : m \in DOMAIN zonePages}
    BY <1>3 DEF ZA!Pages!Taken
  <2>2. ASSUME NEW x \in ZA!Pages!Taken PROVE x \in PA!Numbered(PA!Pool!Taken)
    <3>1. PICK m \in DOMAIN zonePages : x \in PA!Pool!Run(m, zonePages[m])
      BY <2>1
    <3>2. PICK g \in DOMAIN groups : m = pageNumber(g)
      BY PagesSeen
    <3>3. x \in PA!Numbered(PA!Pool!Run(g, groups[g]))
      BY <1>2, <3>1, <3>2, PagesSeen, NumberIs
    <3>4. PICK q \in PA!Pool!Run(g, groups[g]) : x = PA!pageNumber(q)
      BY <3>3 DEF PA!Numbered
    <3>5. q \in PA!Pool!Taken
      BY DEF PA!Pool!Taken
    <3> QED BY <3>4, <3>5 DEF PA!Numbered
  <2>3. ASSUME NEW x \in PA!Numbered(PA!Pool!Taken) PROVE x \in ZA!Pages!Taken
    <3>1. PICK q \in PA!Pool!Taken : x = PA!pageNumber(q)
      BY DEF PA!Numbered
    <3>2. PICK g \in DOMAIN groups : q \in PA!Pool!Run(g, groups[g])
      BY DEF PA!Pool!Taken
    <3>3. x \in PA!Pool!Run(PA!pageNumber(g), groups[g])
      BY <1>2, <3>1, <3>2 DEF PA!Numbered
    <3>4. /\ pageNumber(g) \in DOMAIN zonePages
          /\ x \in PA!Pool!Run(pageNumber(g), zonePages[pageNumber(g)])
      BY <3>3, PagesSeen, NumberIs
    <3> QED BY <2>1, <3>4
  <2> QED BY <2>2, <2>3
<1>5. ZA!Pages!FreeRuns(n) =
         UNION {{x \in A : PA!Pool!Run(x, n) \subseteq A \ PA!Numbered(PA!Pool!Taken)} :
                   A \in {PA!Numbered(a) : a \in PA!areas}}
  BY <1>3, <1>4, PagesSeen DEF ZA!Pages!FreeRuns
<1>6. ZA!Pages!FreeRuns(n) = PA!Numbered(PA!Pool!FreeRuns(n))
  BY <1>1, <1>2, <1>5, PA!FreeRunNumbers, PagesAssumption
<1> QED BY <1>6 DEF PA!Numbered, pageNumber, PA!pageNumber

-----------------------------------------------------------------------------
(* What a step of the page allocator is to the zone allocator.             *)

\* The pages are the same as before, and so are their numbers.
SamePages ==
    /\ UNCHANGED <<regionsInfo, pagesPageSize, descRegionIdx, descPagesCount,
                   pagesCount, address>>
    /\ pagesPhase' \in {"idle", "above", "below"}

LEMMA NumbersStay ==
    ASSUME Inv, Initialized, Initialized', SamePages
    PROVE  /\ zoneAreas' = zoneAreas
           /\ PA!Page' = PA!Page
           /\ \A g : pageNumber(g)' = pageNumber(g)
           /\ \A n : groupOf(n)' = groupOf(n)
           /\ DOMAIN zonePages' = {pageNumber(g) : g \in DOMAIN groups'}
           /\ \A n \in DOMAIN zonePages' : zonePages'[n] = groups'[groupOf(n)]
<1>1. PA!Page' = PA!Page
  BY DEF SamePages, PA!Page
<1>2. /\ \A g : pageNumber(g)' = pageNumber(g)
      /\ \A n : groupOf(n)' = groupOf(n)
  BY DEF SamePages, pageNumber, groupOf, Pages!Page
<1>3. UNCHANGED PA!memoryVars
  BY DEF SamePages, PA!memoryVars
<1>4. PA!areas' = PA!areas
  BY <1>3, ServingPages, PA!SameAreas, PagesAssumption DEF SamePages
<1>5. Pages!areas' = Pages!areas
  <2>1. (Pages!areas = PA!areas) /\ (Pages!areas = PA!areas)'
    BY PagesAreas, PTL
  <2> QED BY <1>4, <2>1
<1>6. zoneAreas' = zoneAreas
  BY <1>2, <1>5 DEF zoneAreas
<1>7. zonePages' = [n \in {pageNumber(g) : g \in DOMAIN groups'} |-> groups'[groupOf(n)]]
  BY <1>2 DEF zonePages
<1> QED BY <1>1, <1>2, <1>6, <1>7

\* A step without a call of the page allocator, or one of its loops.
LEMMA PagesStay ==
    ASSUME Inv, Initialized, Initialized', SamePages, groups' = groups
    PROVE  UNCHANGED ZA!poolVars /\ UNCHANGED <<zoneAreas, zonePages>>
<1>1. zonePages = [n \in DOMAIN zonePages |-> zonePages[n]]
  BY DEF zonePages
<1>2. zonePages' = [n \in DOMAIN zonePages' |-> zonePages'[n]]
  BY DEF zonePages
<1>3. DOMAIN zonePages' = DOMAIN zonePages
  BY NumbersStay, PagesSeen
<1>4. \A n \in DOMAIN zonePages : zonePages'[n] = zonePages[n]
  <2>1. ASSUME NEW n \in DOMAIN zonePages PROVE zonePages'[n] = zonePages[n]
    <3>1. groupOf(n) \in DOMAIN groups /\ pageNumber(groupOf(n)) = n
      BY PagesSeen
    <3>2. zonePages[n] = groups[groupOf(n)]
      BY <3>1, PagesSeen
    <3>3. zonePages'[n] = groups[groupOf(n)]
      BY <1>3, NumbersStay
    <3> QED BY <3>2, <3>3
  <2> QED BY <2>1
<1> QED BY <1>1, <1>2, <1>3, <1>4, NumbersStay DEF ZA!poolVars

\* No pages, before init and after clear.
LEMMA NoPagesSeen ==
    ASSUME zones' = Nothing PROVE ZA!NoPages /\ ~Initialized'
<1>1. ~Initialized'
  BY DEF Initialized, Nothing
<1> QED BY <1>1 DEF ZA!NoPages, zoneAreas, zonePages, Nothing, ZA!Nothing

LEMMA NeverInitialized ==
    ASSUME ~Initialized, ~Initialized'
    PROVE  UNCHANGED ZA!poolVars /\ UNCHANGED <<zoneAreas, zonePages>>
  BY DEF zoneAreas, zonePages, ZA!poolVars, Nothing

\* allocate has returned a run of free pages, or none was long enough.
LEMMA RunTaken ==
    ASSUME Inv, Initialized, Initialized', NEW count \in PageCounts,
           Pages!Allocate(count)
    PROVE  /\ allocated \in ZA!Pages!FreeRuns(count)
           /\ ZA!takeRun(allocated, count)
           /\ zoneAreas' = zoneAreas
           /\ SamePages
           /\ allocated \in Nat
<1>1. PA!Allocate(count)
  BY PagesAllocate
<1>2. PA!Pool!Take(count)
  BY <1>1, PA!AllocatePool, PA!InvParts, PagesAssumption, Zenon DEF Inv
<1>3. count \in Nat \ {0}
  BY <1>1, PagesAssumption DEF PA!Allocate, PA!ConfigAssumption
<1>4. PICK p \in PA!Pool!FreeRuns(count) :
         /\ groups' = [g \in DOMAIN groups \cup {p} |->
                          IF g = p THEN count ELSE groups[g]]
         /\ pagesReply'.result = p
  BY <1>2 DEF PA!Pool!Take
<1>5. SamePages
  BY <1>1 DEF PA!Allocate, PA!memoryVars, SamePages
<1>6. p \in PA!Page
  <2>1. PICK a \in PA!areas : p \in a
    BY DEF PA!Pool!FreeRuns
  <2>2. a \subseteq PA!Page
    <3>1. PA!TableSet
      BY ServingPages
    <3>2. PICK i \in DOMAIN regionsInfo : a = PA!userPages(i)
      BY <2>1 DEF PA!areas
    <3> QED BY <3>1, <3>2, PA!UserPages, PA!RegionOfPage, PagesAssumption, Zenon
  <2> QED BY <2>1, <2>2
<1>7. allocated = pageNumber(p) /\ pageNumber(p) \in Nat
  BY <1>4, <1>6, Numbers DEF allocated
<1>8. allocated \in ZA!Pages!FreeRuns(count)
  BY <1>3, <1>7, FreeRunsSeen
<1>9. zonePages' = ZA!with(zonePages, pageNumber(p), count)
  <2>1. zonePages' = [n \in DOMAIN zonePages' |-> zonePages'[n]]
    BY DEF zonePages
  <2>2. DOMAIN zonePages' = DOMAIN zonePages \cup {pageNumber(p)}
    BY <1>4, <1>5, NumbersStay, PagesSeen
  <2>3. ASSUME NEW n \in DOMAIN zonePages'
        PROVE  zonePages'[n] = IF n = pageNumber(p) THEN count ELSE zonePages[n]
    <3>1. zonePages'[n] = groups'[groupOf(n)]
      BY <1>5, NumbersStay
    <3>2. CASE n = pageNumber(p)
      BY <1>4, <1>6, <3>1, <3>2, Numbers
    <3>3. CASE n # pageNumber(p)
      <4>1. n \in DOMAIN zonePages
        BY <2>2, <3>3
      <4>2. groupOf(n) \in DOMAIN groups /\ pageNumber(groupOf(n)) = n
        BY <4>1, PagesSeen
      <4>3. groupOf(n) # p /\ zonePages[n] = groups[groupOf(n)]
        BY <3>3, <4>2, PagesSeen
      <4> QED BY <1>4, <3>1, <3>3, <4>2, <4>3
    <3> QED BY <3>2, <3>3
  <2> QED BY <2>1, <2>2, <2>3 DEF ZA!with
<1> QED BY <1>5, <1>7, <1>8, <1>9, NumbersStay DEF ZA!takeRun

LEMMA RunRefused ==
    ASSUME Inv, Initialized, Initialized', NEW count \in PageCounts, count > 0,
           Pages!AllocateFails(count)
    PROVE  /\ ZA!Pages!FreeRuns(count) = {}
           /\ UNCHANGED <<zoneAreas, zonePages>>
           /\ SamePages
<1>1. PA!AllocateFails(count)
  BY PagesAllocateFails
<1>2. PA!Pool!Refuse(count)
  BY <1>1, PA!AllocateFailsPool, PA!InvParts, PagesAssumption DEF Inv
<1>3. count \in Nat \ {0}
  BY PagesAssumption DEF PA!ConfigAssumption
<1>4. PA!Pool!FreeRuns(count) = {}
  BY <1>2 DEF PA!Pool!Refuse
<1>5. SamePages /\ groups' = groups
  BY <1>1 DEF PA!AllocateFails, PA!memoryVars, SamePages
<1> QED BY <1>3, <1>4, <1>5, FreeRunsSeen, PagesStay

\* A run is free as soon as release has started.
LEMMA RunGiven ==
    ASSUME Inv, Initialized, Initialized', NEW group \in DOMAIN groups,
           Pages!Release(group)
    PROVE  /\ ZA!giveRun(pageNumber(group))
           /\ zoneAreas' = zoneAreas
           /\ SamePages
<1>1. PA!Release(group)
  BY PagesRelease
<1>2. SamePages /\ groups' = [g \in DOMAIN groups \ {group} |-> groups[g]]
  BY <1>1 DEF PA!Release, PA!memoryVars, SamePages
<1>3. zonePages' = [n \in DOMAIN zonePages' |-> zonePages'[n]]
  BY DEF zonePages
<1>4. DOMAIN zonePages' = DOMAIN zonePages \ {pageNumber(group)}
  <2>1. \A g \in DOMAIN groups : pageNumber(g) = pageNumber(group) => g = group
    BY PagesSeen, Numbers
  <2> QED BY <1>2, <2>1, NumbersStay, PagesSeen
<1>5. ASSUME NEW n \in DOMAIN zonePages' PROVE zonePages'[n] = zonePages[n]
  <2>1. zonePages'[n] = groups'[groupOf(n)]
    BY <1>2, NumbersStay
  <2>2. n \in DOMAIN zonePages /\ n # pageNumber(group)
    BY <1>4
  <2>3. groupOf(n) \in DOMAIN groups /\ pageNumber(groupOf(n)) = n
    BY <2>2, PagesSeen
  <2>4. groupOf(n) # group /\ zonePages[n] = groups[groupOf(n)]
    BY <2>2, <2>3, PagesSeen
  <2> QED BY <1>2, <2>1, <2>3, <2>4
<1> QED BY <1>2, <1>3, <1>4, <1>5, NumbersStay DEF ZA!giveRun, ZA!without

-----------------------------------------------------------------------------
(* What each step of the library is: to the page allocator a call, a step  *)
(* or nothing, to the zone allocator a call, a step or nothing, and what   *)
(* ties the two together stays.                                            *)

Tied == InitializingInv /\ InitializedInv

\* The goal of the lemmas about the actions.
Moves ==
    /\ PA!Next \/ UNCHANGED pagesVars
    /\ ZA!Next \/ UNCHANGED ZA!vars
    /\ Tied'

LEMMA RestingPages ==
    ASSUME Inv, Resting
    PROVE  pagesPhase = "idle" /\ initializing = 0 /\ Idle
  BY DEF Resting, PagesIdle

\* A call that leaves nothing behind: clear, and the ways init fails.
LEMMA ForgetsAll ==
    ASSUME Clear \/ InitRejected
    PROVE  ZA!Next /\ ~Initialized' /\ Idle'
<1>1. zones' = Nothing /\ Idle'
  BY Zenon DEF Clear, InitRejected, clear, Returns, NoCall, Idle
<1>2. ZA!NoPages /\ ~Initialized'
  BY <1>1, NoPagesSeen
<1>3. ZA!Clear \/ ZA!InitRejected
  BY ZonesClear, ZonesInitRejected
<1> QED BY <1>1, <1>2, <1>3 DEF ZA!Next, ZA!Call

LEMMA ClearBothMoves == ASSUME Inv, ClearBoth PROVE Moves
<1>1. Pages!Clear /\ Clear /\ initializing' = 0
  BY DEF ClearBoth, Resting
<1>2. pagesPhase' = "idle"
  BY <1>1, PagesClear DEF PA!Clear
<1> QED BY <1>1, <1>2, PageCalls, ForgetsAll
       DEF Moves, Tied, InitializingInv, InitializedInv

LEMMA InitRefusesPageSizeMoves ==
    ASSUME Inv, NEW size \in PageSizes, InitRefusesPageSize(size) PROVE Moves
<1>1. Pages!InitRejectsPageSize(size) /\ InitRejected /\ initializing' = 0
  BY DEF InitRefusesPageSize, Resting
<1>2. pagesPhase' = "idle"
  BY <1>1, PagesInitRejectsPageSize, Zenon DEF PA!InitRejectsPageSize
<1> QED BY <1>1, <1>2, PageCalls, ForgetsAll
       DEF Moves, Tied, InitializingInv, InitializedInv

LEMMA InitStartMoves ==
    ASSUME Inv, NEW size \in PageSizes, NEW memory \in MemoryModels,
           InitStart(memory, size)
    PROVE  Moves
<1>1. Pages!InitStart(memory, size) /\ Clear /\ initializing' = size
  BY DEF InitStart
<1>2. /\ Pages!isValidPageSize(size)
      /\ pagesPhase' = "scan"
      /\ request' = [regions |-> memory, pageSize |-> size]
  BY <1>1 DEF Pages!InitStart
<1>3. size \in validPageSizes /\ size # 0
  BY <1>2, SizesAssumption DEF validPageSizes
<1> QED BY <1>1, <1>2, <1>3, PageCalls, ForgetsAll
       DEF Moves, Tied, InitializingInv, InitializedInv

LEMMA InitWithoutPagesMoves == ASSUME Inv, InitWithoutPages PROVE Moves
<1>1. /\ InitRejected /\ initializing' = 0 /\ pagesPhase = "idle"
      /\ UNCHANGED pagesVars
  BY DEF InitWithoutPages, PagesReady, PagesIdle
<1>2. pagesPhase' = "idle"
  BY <1>1 DEF pagesVars
<1> QED BY <1>1, <1>2, ForgetsAll
       DEF Moves, Tied, InitializingInv, InitializedInv

-----------------------------------------------------------------------------
(* init, when the page allocator has its pages                             *)

LEMMA PagesReadyIs ==
    ASSUME Inv, PagesReady(TRUE)
    PROVE  /\ Idle /\ ~Initialized
           /\ initializing \in validPageSizes
           /\ pagesPhase = "idle"
           /\ pagesCount > 0
           /\ pagesPageSize = initializing
           /\ groups = PA!NoPages
           /\ PA!TableSet
<1>1. initializing # 0 /\ pagesPhase = "idle" /\ pagesReply = Pages!Reply("init", TRUE)
  BY DEF PagesReady, PagesIdle
<1>2. pagesReply = PA!Reply("init", TRUE) /\ pagesReply.result = TRUE
  BY <1>1, PagesReply, Zenon DEF PA!Reply
<1>3. pagesReply # PA!Reply("init", FALSE)
  BY <1>2 DEF PA!Reply
<1>4. /\ Idle /\ ~Initialized
      /\ initializing \in validPageSizes
      /\ pagesCount > 0
      /\ pagesPageSize = initializing
      /\ groups = PA!NoPages
  BY <1>1, <1>3, Zenon DEF Inv, InitializingInv
<1>5. PA!TableSet
  BY <1>1, <1>4, PA!InitializedSet, PagesAssumption DEF Inv, PA!Initialized
<1> QED BY <1>1, <1>4, <1>5

LEMMA InitSucceedsMoves ==
    ASSUME Inv, PagesReady(TRUE), Pages!Allocate(1),
           InitSucceeds(initializing, allocated)
    PROVE  Moves
<1>1. /\ PA!TableSet /\ pagesPhase = "idle" /\ pagesCount > 0
      /\ pagesPageSize = initializing /\ groups = PA!NoPages
      /\ initializing \in validPageSizes
  BY PagesReadyIs
<1>2. 1 \in PageCounts /\ PA!Allocate(1)
  BY PagesAllocate DEF PageCounts
<1>3. /\ UNCHANGED PA!memoryVars /\ pagesPhase' = "idle"
      /\ UNCHANGED <<pagesPageSize, pagesCount, address>>
  BY <1>1, <1>2 DEF PA!Allocate, PA!memoryVars
<1>4. PA!Pool!Take(1)
  BY <1>2, PA!AllocatePool, PA!InvParts, PagesAssumption, Zenon DEF Inv
<1>5. PICK g \in PA!Pool!FreeRuns(1) :
         /\ groups' = [h \in DOMAIN groups \cup {g} |-> IF h = g THEN 1 ELSE groups[h]]
         /\ pagesReply'.result = g
  BY <1>4 DEF PA!Pool!Take
<1>6. PICK a \in PA!areas : g \in a
  BY DEF PA!Pool!FreeRuns
<1>7. g \in PA!Page
  <2>1. PICK i \in DOMAIN regionsInfo : a = PA!userPages(i)
    BY <1>6 DEF PA!areas
  <2> QED BY <1>1, <1>6, <2>1, PA!UserPages, PA!RegionOfPage, PagesAssumption
<1>8. Initialized' /\ pageSize' = initializing /\ initializing' = 0
  BY DEF InitSucceeds, Initialized, PagesReady
<1>9. PA!areas' = PA!areas
  BY <1>1, <1>3, PA!SameAreas, PagesAssumption
<1>10. \A h : pageNumber(h)' = pageNumber(h)
  BY <1>3 DEF pageNumber
<1>11. allocated = pageNumber(g)
  BY <1>5, <1>10 DEF allocated
<1>12. zoneAreas' = {PA!Numbered(b) : b \in PA!areas}
  <2>1. Pages!areas' = PA!areas
    <3>1. (Pages!areas = PA!areas)'
      BY PagesAreas, PTL
    <3> QED BY <1>9, <3>1
  <2>2. zoneAreas' = {{pageNumber(p) : p \in area} : area \in PA!areas}
    BY <1>8, <1>10, <2>1 DEF zoneAreas
  <2> QED BY <2>2 DEF PA!Numbered, pageNumber, PA!pageNumber
<1>13. PICK memory \in MemoryModels : \E r \in PA!keptRegions(memory, pagesPageSize) :
          {PA!Numbered(b) : b \in PA!areas} = PA!pagesLeft(memory, pagesPageSize, r)
  BY <1>1, PA!AreasLeft, PagesAssumption DEF Inv
<1>14. zoneAreas' \in PoolModels[initializing]
  BY <1>1, <1>12, <1>13, PoolsLeft
<1>15. allocated \in UNION zoneAreas'
  <2>1. pageNumber(g) \in PA!Numbered(a)
    BY <1>6 DEF PA!Numbered, pageNumber, PA!pageNumber
  <2> QED BY <1>6, <1>11, <1>12, <2>1
<1>16. zonePages' = [q \in {allocated} |-> 1]
  <2>1. DOMAIN groups' = {g} /\ groups'[g] = 1
    BY <1>1, <1>5 DEF PA!NoPages
  <2>2. groupOf(pageNumber(g)) = g
    <3>1. groupOf(pageNumber(g)) =
             CHOOSE h \in PA!Page : address[h] = pageNumber(g) * pagesPageSize
      BY DEF groupOf, Pages!Page, PA!Page
    <3>2. ASSUME NEW h \in PA!Page
          PROVE  pageNumber(h) \in Nat /\ address[h] = pageNumber(h) * pagesPageSize
      <4>1. PICK i \in DOMAIN regionsInfo : h \in PA!regionPages(i)
        BY <1>1, PA!RegionOfPage, PagesAssumption
      <4> QED BY <1>1, <4>1, PA!PageNumber, NumberIs, PagesAssumption
    <3>3. PICK h \in PA!Page : /\ h = groupOf(pageNumber(g))
                               /\ address[h] = pageNumber(g) * pagesPageSize
      BY <1>7, <3>1, <3>2
    <3>4. pageNumber(h) * pagesPageSize = pageNumber(g) * pagesPageSize
      BY <3>2, <3>3
    <3>5. pagesPageSize \in Nat \ {0}
      BY <1>1, PA!TableFacts, PagesAssumption, Zenon
    <3>6. pageNumber(h) = pageNumber(g)
      BY <1>7, <3>2, <3>4, <3>5, SamePage
    <3>7. h = g
      BY <1>1, <1>7, <3>6, PA!NumberOfOne, NumberIs, PagesAssumption, Zenon
    <3> QED BY <3>3, <3>7
  <2>3. \A n : groupOf(n)' = groupOf(n)
    BY <1>3 DEF groupOf, Pages!Page
  <2>4. zonePages' =
           [n \in {pageNumber(h) : h \in DOMAIN groups'} |-> groups'[groupOf(n)]]
    BY <1>8, <1>10, <2>3 DEF zonePages
  <2>5. {pageNumber(h) : h \in DOMAIN groups'} = {pageNumber(g)}
    BY <2>1
  <2> QED BY <1>11, <2>1, <2>2, <2>4, <2>5
<1>17. ZA!InitPool(initializing)
  BY <1>14, <1>15, <1>16, ZonesInitSucceeds DEF ZA!InitPool
<1>18. ZA!Next
  BY <1>1, <1>17 DEF ZA!Next, ZA!Call
<1>19. PA!Next
  BY <1>2, PageCalls
<1> QED BY <1>1, <1>3, <1>8, <1>18, <1>19
       DEF Moves, Tied, InitializingInv, InitializedInv

LEMMA InitFailsMoves ==
    ASSUME Inv, PagesReady(TRUE), Pages!AllocateFails(1), InitFails(initializing)
    PROVE  Moves
<1>1. pagesPhase = "idle" /\ initializing \in validPageSizes
  BY PagesReadyIs
<1>2. 1 \in PageCounts /\ PA!AllocateFails(1)
  BY PagesAllocateFails DEF PageCounts
<1>3. pagesPhase' = "idle" /\ initializing' = 0
  BY <1>1, <1>2 DEF PA!AllocateFails, PagesReady
<1>4. zones' = Nothing
  BY DEF InitFails, clear
<1>5. ZA!NoPages /\ ~Initialized'
  BY <1>4, NoPagesSeen
<1>6. ZA!InitPool(initializing)
  BY <1>5, ZonesInitFails DEF ZA!InitPool
<1>7. ZA!Next
  BY <1>1, <1>6 DEF ZA!Next, ZA!Call
<1>8. PA!Next
  BY <1>2, PageCalls
<1> QED BY <1>3, <1>5, <1>7, <1>8
       DEF Moves, Tied, InitializingInv, InitializedInv

LEMMA InitZoneAllocatorMoves == ASSUME Inv, InitZoneAllocator PROVE Moves
  BY InitSucceedsMoves, InitFailsMoves DEF InitZoneAllocator

-----------------------------------------------------------------------------
(* allocate and release                                                    *)

LEMMA CallServed ==
    ASSUME Inv, phase # "idle"
    PROVE  /\ Initialized
           /\ phase \in {"allocate", "undo", "release"}
<1>1. /\ phase \in {"idle", "allocate", "undo", "release"}
      /\ ZA!CallInv /\ ZA!DeallocateInv
  BY DEF Inv, ZA!Inv
<1> QED BY <1>1 DEF ZA!CallInv, ZA!DeallocateInv, ZA!Deallocating,
                    ZA!Initialized, Initialized

LEMMA TiedStays ==
    ASSUME Inv, Initialized, Initialized', SamePages, pageSize' = pageSize,
           initializing' = initializing
    PROVE  Tied'
<1>1. /\ initializing = 0 /\ pagesCount > 0 /\ pageSize = pagesPageSize
  BY DEF Inv, InitializedInv
<1>2. /\ initializing' = 0 /\ pagesCount' > 0 /\ pageSize' = pagesPageSize'
      /\ pagesPhase' \in {"idle", "above", "below"}
  BY <1>1 DEF SamePages
<1> QED BY <1>2 DEF Tied, InitializingInv, InitializedInv, PagesReleasing

\* A step that does not concern the page allocator.
LEMMA NoPageCall ==
    ASSUME Inv, Initialized, Initialized', UNCHANGED pagesVars,
           pageSize' = pageSize, initializing' = initializing
    PROVE  /\ UNCHANGED ZA!poolVars
           /\ UNCHANGED <<zoneAreas, zonePages>>
           /\ Tied'
<1>1. SamePages /\ groups' = groups
  BY ServingPages DEF pagesVars, SamePages
<1> QED BY <1>1, PagesStay, TiedStays

LEMMA PagesForCount ==
    ASSUME Inv, Initialized, NEW size \in AllocSizes, size # 0
    PROVE  pagesFor(size) \in PageCounts /\ pagesFor(size) \in Nat \ {0}
<1>1. pageSize \in Nat \ {0} /\ pageSize \in validPageSizes
  BY ServingPages
<1>2. size \in Nat \ {0}
  BY SizesAssumption
<1>3. size + pageSize - 1 \in Nat /\ 1 * pageSize <= size + pageSize - 1
  BY <1>1, <1>2
<1>4. 1 <= (size + pageSize - 1) \div pageSize
  BY <1>1, <1>3, QuotientAtLeast
<1>5. (size + pageSize - 1) \div pageSize \in Nat
  BY <1>1, <1>3, Division
<1> QED BY <1>1, <1>4, <1>5 DEF pagesFor, PageCounts

LEMMA AllocateFromPagesMoves ==
    ASSUME Inv, NEW size \in AllocSizes, AllocateFromPages(size) PROVE Moves
<1>1. Initialized /\ Idle /\ initializing' = initializing
  BY DEF AllocateFromPages, Resting
<1>2. /\ size # 0 /\ pageSize' = pageSize /\ zones' = zones
  BY DEF AllocateFromPages, AllocatePages, zoneVars
<1>3. Initialized'
  BY <1>1, <1>2 DEF Initialized
<1>4. pagesFor(size) \in PageCounts /\ pagesFor(size) > 0
  BY <1>1, <1>2, PagesForCount
<1>5. CASE Pages!Allocate(pagesFor(size)) /\ AllocatePages(size, allocated)
  <2>1. /\ allocated \in ZA!Pages!FreeRuns(pagesFor(size))
        /\ ZA!takeRun(allocated, pagesFor(size))
        /\ zoneAreas' = zoneAreas
        /\ SamePages
    BY <1>1, <1>3, <1>4, <1>5, RunTaken
  <2>2. ZA!AllocatePages(size, allocated)
    BY <1>5, ZonesAllocatePages
  <2>3. ZA!AllocateRun(size)
    BY <1>1, <2>1, <2>2, ZonesPagesFor DEF ZA!AllocateRun, ZA!Idle, Idle
  <2> QED BY <1>1, <1>2, <1>3, <1>4, <1>5, <2>1, <2>3, PageCalls, TiedStays
          DEF Moves, ZA!Next, ZA!Call
<1>6. CASE Pages!AllocateFails(pagesFor(size)) /\ AllocatePages(size, nullptr)
  <2>1. /\ ZA!Pages!FreeRuns(pagesFor(size)) = {}
        /\ UNCHANGED <<zoneAreas, zonePages>>
        /\ SamePages
    BY <1>1, <1>3, <1>4, <1>6, RunRefused
  <2>2. ZA!AllocatePages(size, nullptr)
    BY <1>6, ZonesAllocatePages
  <2>3. ZA!AllocateRun(size)
    BY <1>1, <2>1, <2>2, ZonesPagesFor DEF ZA!AllocateRun, ZA!Idle, Idle
  <2> QED BY <1>1, <1>2, <1>3, <1>4, <1>6, <2>1, <2>3, PageCalls, TiedStays
          DEF Moves, ZA!Next, ZA!Call
<1> QED BY <1>5, <1>6 DEF AllocateFromPages

LEMMA AllocateFromZonesMoves ==
    ASSUME Inv, NEW size \in AllocSizes, AllocateFromZones(size) PROVE Moves
<1>1. /\ UNCHANGED pagesVars /\ initializing' = initializing
      /\ \/ AllocateNothing(size) \/ AllocateThrows(size)
         \/ AllocateChunk(size) \/ AllocateStart(size)
  BY DEF AllocateFromZones
<1>2. Initialized /\ pageSize' = pageSize /\ DOMAIN zones' = DOMAIN zones
  BY <1>1 DEF AllocateNothing, AllocateThrows, AllocateChunk, AllocateStart,
              isForZones, zoneVars
<1>3. Initialized'
  BY <1>2 DEF Initialized
<1>4. UNCHANGED ZA!poolVars /\ Tied'
  BY <1>1, <1>2, <1>3, NoPageCall
<1>5. \/ ZA!AllocateNothing(size) \/ ZA!AllocateThrows(size)
      \/ ZA!AllocateChunk(size) \/ ZA!AllocateStart(size)
  BY <1>1, ZonesAllocateNothing, ZonesAllocateThrows, ZonesAllocateChunk,
     ZonesAllocateStart
<1>6. ZA!Call
  BY <1>4, <1>5 DEF ZA!Call
<1> QED BY <1>1, <1>4, <1>6 DEF Moves, ZA!Next

LEMMA ReleaseBlockMoves == ASSUME Inv, ReleaseBlock PROVE Moves
<1>1. /\ UNCHANGED pagesVars /\ initializing' = 0 /\ initializing = 0
      /\ pagesPhase = "idle"
      /\ ReleaseNull \/ \E addr \in DOMAIN held : Release(addr)
  BY DEF ReleaseBlock, Resting, PagesIdle
<1>2. zones' = zones /\ pageSize' = pageSize /\ pagesPhase' = "idle"
  BY <1>1 DEF ReleaseNull, Release, zoneVars, pagesVars
<1>3. Initialized' <=> Initialized
  BY <1>2 DEF Initialized
<1>4. UNCHANGED ZA!poolVars /\ Tied'
  <2>1. CASE Initialized
    BY <1>1, <1>2, <1>3, <2>1, NoPageCall
  <2>2. CASE ~Initialized
    BY <1>1, <1>2, <1>3, <2>2, NeverInitialized
       DEF Tied, InitializingInv, InitializedInv
  <2> QED BY <2>1, <2>2
<1>5. ZA!ReleaseNull \/ \E addr \in DOMAIN held : ZA!Release(addr)
  BY <1>1, ZonesReleaseNull, ZonesRelease
<1>6. ZA!Call
  BY <1>4, <1>5 DEF ZA!Call
<1> QED BY <1>1, <1>4, <1>6 DEF Moves, ZA!Next

LEMMA AllocateZoneMoves == ASSUME Inv, AllocateZone PROVE Moves
<1>1. /\ NeedsPage /\ initializing' = initializing
      /\ \/ Pages!Allocate(1) /\ AddZone(allocated)
         \/ Pages!AllocateFails(1) /\ ZoneFails
  BY DEF AllocateZone
<1>2. Initialized /\ ZA!NeedsPage
  BY <1>1, CallServed, ZonesNeedsPage DEF NeedsPage
<1>3. pageSize' = pageSize /\ DOMAIN zones \subseteq DOMAIN zones'
  BY <1>1 DEF AddZone, ZoneFails, with
<1>4. Initialized'
  BY <1>2, <1>3 DEF Initialized
<1>5. 1 \in PageCounts
  BY DEF PageCounts
<1>6. CASE Pages!Allocate(1) /\ AddZone(allocated)
  <2>1. /\ allocated \in ZA!Pages!FreeRuns(1)
        /\ ZA!takeRun(allocated, 1)
        /\ zoneAreas' = zoneAreas
        /\ SamePages
    BY <1>2, <1>4, <1>5, <1>6, RunTaken
  <2>2. ZA!AddZone(allocated)
    BY <1>6, ZonesAddZone
  <2>3. ZA!AllocateZone
    BY <1>2, <2>1, <2>2 DEF ZA!AllocateZone
  <2> QED BY <1>1, <1>2, <1>3, <1>4, <1>5, <1>6, <2>1, <2>3, PageCalls, TiedStays
          DEF Moves, ZA!Next, ZA!Step
<1>7. CASE Pages!AllocateFails(1) /\ ZoneFails
  <2>1. /\ ZA!Pages!FreeRuns(1) = {}
        /\ UNCHANGED <<zoneAreas, zonePages>>
        /\ SamePages
    BY <1>2, <1>4, <1>5, <1>7, RunRefused
  <2>2. ZA!ZoneFails
    BY <1>7, ZonesZoneFails
  <2>3. ZA!AllocateZone
    BY <1>2, <2>1, <2>2 DEF ZA!AllocateZone
  <2> QED BY <1>1, <1>2, <1>3, <1>4, <1>5, <1>7, <2>1, <2>3, PageCalls, TiedStays
          DEF Moves, ZA!Next, ZA!Step
<1> QED BY <1>1, <1>6, <1>7

LEMMA ZoneStepMoves == ASSUME Inv, ZoneStep PROVE Moves
<1>1. /\ UNCHANGED pagesVars /\ initializing' = initializing
      /\ AllocateDescZone \/ GiveChunk
  BY DEF ZoneStep
<1>2. phase # "idle"
  BY <1>1 DEF AllocateDescZone, GiveChunk, Deallocating
<1>3. pageSize' = pageSize /\ DOMAIN zones' = DOMAIN zones
  BY <1>1 DEF AllocateDescZone, GiveChunk, zoneVars, givenBack
<1>4. Initialized /\ Initialized'
  BY <1>2, <1>3, CallServed DEF Initialized
<1>5. UNCHANGED ZA!poolVars /\ Tied'
  BY <1>1, <1>3, <1>4, NoPageCall
<1>6. ZA!AllocateDescZone \/ ZA!GiveChunk
  BY <1>1, ZonesAllocateDescZone, ZonesGiveChunk
<1> QED BY <1>1, <1>5, <1>6 DEF Moves, ZA!Next, ZA!Step

LEMMA ZoneOfChunk ==
    ASSUME Inv, NEW c
    PROVE  /\ findZone(c) # nullptr =>
                 /\ findZone(c) \in DOMAIN zones
                 /\ c \in ZA!ChunksIn(zones[findZone(c)], pageSize)
           /\ \A z \in DOMAIN zones :
                 c \in ZA!ChunksIn(zones[z], pageSize) => findZone(c) = z
<1>1. pageSize \in Nat /\ ZA!ZonesOK(zones, pageSize)
  BY ZA!InvMeans, ZonesAssumption DEF Inv
<1> QED BY <1>1, ZA!FindZone, ZonesFindZone, ZonesAssumption

LEMMA DropZoneMoves == ASSUME Inv, DropZone PROVE Moves
<1>1. PICK z : z = findZone(chunk)
  OBVIOUS
<1>2. PICK page : page = zones[z].page
  OBVIOUS
<1>3. /\ EmptiesZone /\ RemoveZone /\ Pages!Release(groupOf(page))
      /\ initializing' = initializing
  BY <1>1, <1>2 DEF DropZone
<1>4. phase # "idle" /\ z # nullptr /\ z # initialZone
  BY <1>1, <1>3 DEF EmptiesZone, Deallocating, isEmptied
<1>5. Initialized /\ z \in DOMAIN zones
  BY <1>1, <1>4, CallServed, ZoneOfChunk
<1>6. pageSize' = pageSize /\ DOMAIN zones' = DOMAIN zones \ {z}
  BY <1>1, <1>3 DEF RemoveZone, without
<1>7. Initialized'
  BY <1>4, <1>5, <1>6 DEF Initialized
<1>8. page \in DOMAIN zonePages
  BY <1>2, <1>5 DEF Inv, ZA!Inv, ZA!PagesOwned
<1>9. groupOf(page) \in DOMAIN groups /\ pageNumber(groupOf(page)) = page
  BY <1>5, <1>8, PagesSeen
<1>10. ZA!giveRun(page) /\ zoneAreas' = zoneAreas /\ SamePages
  BY <1>3, <1>5, <1>7, <1>9, RunGiven
<1>11. ZA!RemoveZone /\ zones[ZA!findZone(chunk)].page = page
  BY <1>1, <1>2, <1>3, ZonesRemoveZone, ZonesFindZone
<1> QED BY <1>3, <1>5, <1>6, <1>7, <1>9, <1>10, <1>11, PageCalls, TiedStays
        DEF Moves, ZA!Next, ZA!Step

\* The first page of a run is found again by its address.
LEMMA PageFound ==
    ASSUME Inv, Initialized, pagesPhase = "idle", NEW g \in PA!Page
    PROVE  Pages!getPage(pageNumber(g) * pageSize) = g
<1>1. PICK addr : addr = pageNumber(g) * pageSize
  OBVIOUS
<1>2. pageSize = pagesPageSize /\ pageSize \in Nat \ {0}
  BY ServingPages
<1>3. pageNumber(g) \in Nat /\ address[g] = addr /\ addr \in Nat
  BY <1>1, <1>2, Numbers, NatProduct
<1>4. PICK page, holders :
          /\ page = PA!getPage(addr)
          /\ holders = {p \in PA!Page :
                           address[p] <= addr /\ addr < address[p] + pagesPageSize}
  BY Zenon
<1>5. g \in holders
  BY <1>2, <1>3, <1>4
<1>6. page \in holders
  BY <1>3, <1>4, <1>5, ServingPages, PA!Lookup, PagesAssumption
<1>7. page \in PA!Page /\ address[page] <= addr /\ addr < address[page] + pageSize
  BY <1>2, <1>4, <1>6
<1>8. pageNumber(page) \in Nat /\ address[page] = pageNumber(page) * pageSize
  BY <1>7, Numbers
<1>9. pageNumber(page) = pageNumber(g)
  <2>1. PICK a \in Nat, b \in Nat : a = pageNumber(page) /\ b = pageNumber(g)
    BY <1>3, <1>8
  <2>2. a * pageSize <= addr /\ addr < a * pageSize + pageSize
    BY <1>7, <1>8, <2>1
  <2>3. b * pageSize <= addr /\ addr < b * pageSize + pageSize
    BY <1>1, <1>2, <1>3, <2>1
  <2>4. a = b
    BY <1>2, <1>3, <2>2, <2>3, OnOnePage
  <2> QED BY <2>1, <2>4
<1>10. page = g
  BY <1>7, <1>9, Numbers
<1> QED BY <1>1, <1>4, <1>10, PagesGetPage

LEMMA ReleasePagesMoves == ASSUME Inv, ReleasePages PROVE Moves
<1>1. /\ NotInZones /\ initializing' = initializing /\ pagesPhase = "idle"
      /\ IF phase = "release" /\ Pages!getPage(argument) # nullptr
         THEN Pages!Release(Pages!getPage(argument))
         ELSE UNCHANGED pagesVars
  BY DEF ReleasePages, PagesIdle
<1>2. /\ Deallocating /\ phase # "idle" /\ findZone(chunk) = nullptr
      /\ zones' = zones /\ pageSize' = pageSize
  BY <1>1 DEF NotInZones, Deallocating, zoneVars
<1>3. Initialized /\ Initialized'
  BY <1>2, CallServed DEF Initialized
<1>4. ZA!NotInZones
  BY <1>1, ZonesNotInZones
<1>5. CASE phase # "release"
  <2>1. UNCHANGED pagesVars
    BY <1>1, <1>5
  <2>2. UNCHANGED <<zoneAreas, zonePages>> /\ Tied'
    BY <1>1, <1>2, <1>3, <2>1, NoPageCall
  <2>3. ZA!ReleaseRun
    BY <1>5, <2>2 DEF ZA!ReleaseRun
  <2> QED BY <1>4, <2>1, <2>2, <2>3 DEF Moves, ZA!Next, ZA!Step
<1>6. CASE phase = "release"
  <2>1. ZA!DeallocateInv /\ ZA!RunsOK /\ ZA!Deallocating
    BY <1>6 DEF Inv, ZA!Inv, ZA!Deallocating
  <2>2. \A z \in DOMAIN zones : chunk \notin ZA!ChunksIn(zones[z], pageSize)
    <3>1. \A z \in DOMAIN zones : z # nullptr
      <4>1. DOMAIN zones \subseteq Nat \cup {initialZone}
        BY ZA!InvMeans, ZonesAssumption DEF Inv, ZA!ZonesOK, ZA!ZoneName
      <4> QED BY <4>1, NamesAssumption
    <3> QED BY <1>2, <3>1, ZoneOfChunk
  <2>3. /\ ~ZA!InDescZone(chunk) /\ chunk = argument
        /\ \E p \in DOMAIN zonePages : chunk = ZA!pageAddr(p)
    BY <2>1, <2>2 DEF ZA!DeallocateInv, ZA!InDescZone, ZA!ZonesOf
  <2>4. PICK p \in DOMAIN zonePages : argument = p * pageSize
    BY <2>3 DEF ZA!pageAddr
  <2>5. PICK g \in DOMAIN groups : g = groupOf(p) /\ pageNumber(g) = p
    BY <1>3, PagesSeen
  <2>6. g \in PA!Page /\ g # nullptr
    <3>1. g \in PA!Page
      BY <1>3, PagesSeen
    <3>2. PA!Page \subseteq Int /\ nullptr \notin Int
      BY NamesAssumption DEF PA!Page
    <3> QED BY <3>1, <3>2
  <2>7. Pages!getPage(argument) = g
    BY <1>1, <1>3, <2>4, <2>5, <2>6, PageFound
  <2>8. Pages!Release(g)
    BY <1>1, <1>6, <2>6, <2>7
  <2>9. ZA!giveRun(p) /\ zoneAreas' = zoneAreas /\ SamePages
    BY <1>3, <2>5, <2>8, RunGiven
  <2>10. ZA!getPage(argument) = p /\ p # nullptr
    <3>1. p \in UNION zoneAreas /\ p \in Nat
      BY <2>1 DEF ZA!RunsOK
    <3>2. pageSize \in Nat \ {0}
      BY <1>3, ServingPages
    <3>3. argument \div pageSize = p
      BY <2>4, <3>1, <3>2, QuotientOfMultiple
    <3>4. p # nullptr
      BY <3>1, NamesAssumption
    <3> QED BY <3>1, <3>3, <3>4 DEF ZA!getPage
  <2>11. ZA!ReleaseRun
    BY <1>6, <2>9, <2>10 DEF ZA!ReleaseRun
  <2>12. PA!Next
    BY <2>8, PageCalls
  <2>13. Tied'
    BY <1>1, <1>2, <1>3, <2>9, TiedStays
  <2> QED BY <1>4, <2>11, <2>12, <2>13 DEF Moves, ZA!Next, ZA!Step
<1> QED BY <1>5, <1>6

-----------------------------------------------------------------------------
(* The loops of the page allocator                                         *)

LEMMA StepWhileServing ==
    ASSUME Inv, Initialized, PA!Step
    PROVE  SamePages /\ groups' = groups
<1>1. pagesPhase \in {"idle", "above", "below"}
  BY ServingPages
<1>2. PA!JoinAbove \/ PA!NothingAbove \/ PA!JoinBelow \/ PA!FinishRelease
  BY <1>1, Zenon DEF PA!Step, PA!ScanRegion, PA!TooManyRegions, PA!NoUsablePages,
              PA!ScanDone, PA!SetupRegion
<1> QED BY <1>1, <1>2
        DEF PA!JoinAbove, PA!NothingAbove, PA!JoinBelow, PA!FinishRelease,
            PA!memoryVars, SamePages

LEMMA StepWhileInitializing ==
    ASSUME Inv, ~Initialized, PA!Step, UNCHANGED allocatorVars,
           initializing' = initializing
    PROVE  Tied'
<1>1. PA!Step => pagesPhase # "idle"
  BY Zenon DEF PA!Step, PA!ScanRegion, PA!TooManyRegions, PA!NoUsablePages, PA!ScanDone,
         PA!SetupRegion, PA!JoinAbove, PA!NothingAbove, PA!JoinBelow,
         PA!FinishRelease
<1>2. /\ initializing # 0 /\ initializing \in validPageSizes /\ Idle
      /\ \/ pagesPhase = "scan" /\ request.pageSize = initializing
         \/ pagesPhase = "setup" /\ pagesPageSize = initializing
  BY <1>1, Zenon DEF Inv, InitializedInv, InitializingInv
<1>3. ~Initialized' /\ Idle' /\ initializing' \in validPageSizes /\ initializing' # 0
  BY <1>2 DEF allocatorVars, zoneVars, callVars, Initialized, Idle
<1>4. CASE PA!ScanRegion \/ PA!ScanDone
  <2>1. \/ pagesPhase' = "scan" /\ request'.pageSize = initializing
        \/ pagesPhase' = "setup" /\ pagesPageSize' = initializing
    BY <1>2, <1>4 DEF PA!ScanRegion, PA!ScanDone
  <2> QED BY <1>3, <2>1, Zenon DEF Tied, InitializingInv, InitializedInv
<1>5. CASE PA!TooManyRegions \/ PA!NoUsablePages
  <2>1. pagesPhase' = "idle" /\ pagesReply' = PA!Reply("init", FALSE)
    BY <1>5, Zenon DEF PA!TooManyRegions, PA!NoUsablePages, PA!InitReturns
  <2>2. PA!Reply("init", FALSE)' = PA!Reply("init", FALSE)
    BY DEF PA!Reply
  <2> QED BY <1>3, <2>1, <2>2 DEF Tied, InitializingInv, InitializedInv
<1>6. CASE PA!SetupRegion
  <2>1. /\ pagesPhase = "setup" /\ pagesPageSize = initializing
        /\ UNCHANGED <<pagesPageSize, pagesCount, groups>>
        /\ \/ pagesPhase' = "setup"
           \/ pagesPhase' = "idle" /\ pagesReply' = PA!Reply("init", TRUE)
    BY <1>2, <1>6, Zenon DEF PA!SetupRegion, PA!InitReturns
  <2>2. pagesCount > 0 /\ groups = PA!NoPages
    BY <2>1 DEF Inv, PA!Inv, PA!SetupInv
  <2>3. /\ PA!Reply("init", TRUE)' = PA!Reply("init", TRUE)
        /\ PA!NoPages' = PA!NoPages
    BY DEF PA!Reply, PA!NoPages
  <2> QED BY <1>3, <2>1, <2>2, <2>3, Zenon DEF Tied, InitializingInv, InitializedInv
<1>7. ~PA!JoinAbove /\ ~PA!NothingAbove /\ ~PA!JoinBelow /\ ~PA!FinishRelease
  BY <1>2 DEF PA!JoinAbove, PA!NothingAbove, PA!JoinBelow, PA!FinishRelease
<1> QED BY <1>4, <1>5, <1>6, <1>7 DEF PA!Step

LEMMA PageStepMoves == ASSUME Inv, PageStep PROVE Moves
<1>1. /\ Pages!Step /\ PA!Step
      /\ UNCHANGED allocatorVars /\ initializing' = initializing
  BY PagesStep DEF PageStep
<1>2. Initialized' <=> Initialized
  BY <1>1 DEF allocatorVars, zoneVars, Initialized
<1>3. UNCHANGED <<zoneAreas, zonePages>> /\ Tied'
  <2>1. CASE Initialized
    <3>1. SamePages /\ groups' = groups
      BY <1>1, <2>1, StepWhileServing
    <3>2. pageSize' = pageSize
      BY <1>1 DEF allocatorVars
    <3> QED BY <1>1, <1>2, <2>1, <3>1, <3>2, PagesStay, TiedStays
  <2>2. CASE ~Initialized
    BY <1>1, <1>2, <2>2, NeverInitialized, StepWhileInitializing
  <2> QED BY <2>1, <2>2
<1>4. UNCHANGED ZA!vars
  BY <1>1, <1>3 DEF allocatorVars, zoneVars, callVars, ZA!vars, ZA!zoneVars, ZA!callVars
<1> QED BY <1>1, <1>3, <1>4, PageCalls DEF Moves

LEMMA StutterMoves == ASSUME Inv, UNCHANGED vars PROVE Moves
<1>1. UNCHANGED allocatorVars /\ UNCHANGED pagesVars /\ initializing' = initializing
  BY DEF vars
<1>2. Initialized' <=> Initialized
  BY <1>1 DEF allocatorVars, zoneVars, Initialized
<1>3. UNCHANGED <<zoneAreas, zonePages>> /\ Tied'
  <2>1. CASE Initialized
    <3>1. pageSize' = pageSize
      BY <1>1 DEF allocatorVars
    <3> QED BY <1>1, <1>2, <2>1, <3>1, NoPageCall
  <2>2. CASE ~Initialized
    <3>1. UNCHANGED <<zoneAreas, zonePages>>
      BY <1>2, <2>2, NeverInitialized
    <3>2. InitializingInv /\ InitializedInv
      BY DEF Inv
    <3>3. /\ UNCHANGED <<pagesPhase, request, pagesPageSize, pagesReply, pagesCount,
                         groups>>
          /\ Idle' <=> Idle
      BY <1>1 DEF pagesVars, allocatorVars, callVars, Idle
    <3>4. /\ \A r : PA!Reply("init", r)' = PA!Reply("init", r)
          /\ PA!NoPages' = PA!NoPages
      BY DEF PA!Reply, PA!NoPages
    <3> QED BY <1>1, <1>2, <2>2, <3>1, <3>2, <3>3, <3>4, Zenon
            DEF Tied, InitializingInv, InitializedInv
  <2> QED BY <2>1, <2>2
<1>4. UNCHANGED ZA!vars
  BY <1>1, <1>3 DEF allocatorVars, zoneVars, callVars, ZA!vars, ZA!zoneVars, ZA!callVars
<1> QED BY <1>1, <1>3, <1>4 DEF Moves

LEMMA NextMoves == Inv /\ [Next]_vars => Moves
<1> SUFFICES ASSUME Inv, [Next]_vars PROVE Moves
  OBVIOUS
<1>1. CASE Call
  BY <1>1, ClearBothMoves, InitRefusesPageSizeMoves, InitStartMoves,
     AllocateFromPagesMoves, AllocateFromZonesMoves, ReleaseBlockMoves DEF Call
<1>2. CASE Step
  BY <1>2, InitWithoutPagesMoves, InitZoneAllocatorMoves, AllocateZoneMoves,
     DropZoneMoves, ReleasePagesMoves, ZoneStepMoves, PageStepMoves DEF Step
<1>3. CASE UNCHANGED vars
  BY <1>3, StutterMoves
<1> QED BY <1>1, <1>2, <1>3 DEF Next

-----------------------------------------------------------------------------
(* The invariant.                                                          *)

LEMMA ZonesStart == Init => ZA!Init
<1> SUFFICES ASSUME Init PROVE ZA!Init
  OBVIOUS
<1>1. InitZones /\ ZA!InitZones
  BY ZonesInitZones DEF Init
<1>2. ~Initialized
  BY <1>1 DEF InitZones, Initialized, Nothing
<1> QED BY <1>1, <1>2 DEF ZA!Init, zoneAreas, zonePages, Nothing, ZA!Nothing

LEMMA InitInv == Init => Inv
<1> SUFFICES ASSUME Init PROVE Inv
  OBVIOUS
<1>1. PagesInv
  BY PagesStart DEF Init
<1>2. ZonesInv
  BY ZonesStart, ZA!InitInv, ZA!InitOrigin, ZonesAssumption DEF ZonesInv
<1>3. initializing = 0 /\ pagesPhase = "idle" /\ ~Initialized
  BY DEF Init, Pages!Init, InitZones, Initialized, Nothing
<1> QED BY <1>1, <1>2, <1>3, InvIs DEF InitializingInv, InitializedInv

LEMMA StepInv == Inv /\ [Next]_vars => Inv'
<1> SUFFICES ASSUME Inv, [Next]_vars PROVE Inv'
  OBVIOUS
<1>1. Moves /\ PagesInv /\ ZonesInv
  BY NextMoves, InvIs
<1>2. PagesInv'
  BY <1>1, PagesKept DEF Moves
<1>3. ZonesInv'
  BY <1>1, ZonesKept DEF Moves
<1>4. Tied'
  BY <1>1 DEF Moves
<1> QED BY <1>2, <1>3, <1>4 DEF Inv, PagesInv, ZonesInv, Tied

\* The invariants of both allocators hold while they work together, and the
\* state of one fits the state of the other: what lib/allocator.cpp relies on
\* when it passes the pages of one to the other.
THEOREM InvCorrect == Spec => []Inv
<1>1. Init => Inv
  BY InitInv
<1>2. Inv /\ [Next]_vars => Inv'
  BY StepInv
<1> QED BY <1>1, <1>2, PTL DEF Spec

-----------------------------------------------------------------------------
(* Allocator's own instance of ZonesOverPool and the one with the theorems *)
(* are of the same definitions, too.                                       *)

LEMMA PoolInitZones == Zones!InitZones <=> ZA!InitZones
  BY DEF Zones!InitZones, ZA!InitZones, Zones!Nothing, ZA!Nothing,
         Zones!EmptyLists, ZA!EmptyLists, Zones!NoChunks, ZA!NoChunks,
         Zones!NoReply, ZA!NoReply, Zones!ZoneIdx, ZA!ZoneIdx, Zones!Reply,
         ZA!Reply

LEMMA PoolClear == Zones!Clear <=> ZA!Clear
  BY DEF Zones!Clear, ZA!Clear, Zones!Idle, ZA!Idle, Zones!clear, ZA!clear,
         Zones!Returns, ZA!Returns, Zones!Reply, ZA!Reply, Zones!Nothing,
         ZA!Nothing, Zones!EmptyLists, ZA!EmptyLists, Zones!NoChunks,
         ZA!NoChunks, Zones!NoCall, ZA!NoCall, Zones!ZoneIdx, ZA!ZoneIdx

LEMMA PoolInitRejected == Zones!InitRejected <=> ZA!InitRejected
  BY DEF Zones!InitRejected, ZA!InitRejected, Zones!Idle, ZA!Idle,
         Zones!clear, ZA!clear, Zones!Returns, ZA!Returns, Zones!Reply,
         ZA!Reply, Zones!Nothing, ZA!Nothing, Zones!EmptyLists, ZA!EmptyLists,
         Zones!NoChunks, ZA!NoChunks, Zones!NoCall, ZA!NoCall, Zones!ZoneIdx,
         ZA!ZoneIdx

LEMMA PoolInitFails ==
    ASSUME NEW size
    PROVE  Zones!InitFails(size) <=> ZA!InitFails(size)
  BY DEF Zones!InitFails, ZA!InitFails, Zones!Idle, ZA!Idle, Zones!clear,
         ZA!clear, Zones!Returns, ZA!Returns, Zones!Reply, ZA!Reply,
         Zones!Nothing, ZA!Nothing, Zones!EmptyLists, ZA!EmptyLists,
         Zones!NoChunks, ZA!NoChunks, Zones!NoCall, ZA!NoCall, Zones!ZoneIdx,
         ZA!ZoneIdx

LEMMA PoolInitSucceeds ==
    ASSUME NEW size, NEW page
    PROVE  Zones!InitSucceeds(size, page) <=> ZA!InitSucceeds(size, page)
  BY DEF Zones!InitSucceeds, ZA!InitSucceeds, Zones!Idle, ZA!Idle,
         Zones!newZone, ZA!newZone, Zones!zoneDescChunkSize,
         ZA!zoneDescChunkSize, Zones!EmptyLists, ZA!EmptyLists,
         Zones!zoneDescIdx, ZA!zoneDescIdx, Zones!NoChunks, ZA!NoChunks,
         Zones!Nothing, ZA!Nothing, Zones!Returns, ZA!Returns, Zones!Reply,
         ZA!Reply, Zones!chunkSize, ZA!chunkSize, Zones!ZoneIdx, ZA!ZoneIdx,
         Zones!zoneIdx, ZA!zoneIdx, Zones!Cardinality, ZA!Cardinality,
         Zones!NoCall, ZA!NoCall, Zones!Min, ZA!Min

LEMMA PoolAllocateNothing ==
    ASSUME NEW size
    PROVE  Zones!AllocateNothing(size) <=> ZA!AllocateNothing(size)
  BY DEF Zones!AllocateNothing, ZA!AllocateNothing, Zones!Idle, ZA!Idle,
         Zones!Initialized, ZA!Initialized, Zones!Returns, ZA!Returns,
         Zones!AllocReply, ZA!AllocReply, Zones!zoneVars, ZA!zoneVars,
         Zones!NoCall, ZA!NoCall, Zones!Nothing, ZA!Nothing

LEMMA PoolAllocateThrows ==
    ASSUME NEW size
    PROVE  Zones!AllocateThrows(size) <=> ZA!AllocateThrows(size)
  BY DEF Zones!AllocateThrows, ZA!AllocateThrows, Zones!Idle, ZA!Idle,
         Zones!Initialized, ZA!Initialized, Zones!isForPages, ZA!isForPages,
         Zones!zoneIdx, ZA!zoneIdx, Zones!Cardinality, ZA!Cardinality,
         Zones!chunkSize, ZA!chunkSize, Zones!ZoneIdx, ZA!ZoneIdx,
         Zones!Returns, ZA!Returns, Zones!zoneVars, ZA!zoneVars, Zones!Min,
         ZA!Min, Zones!NoCall, ZA!NoCall, Zones!Nothing, ZA!Nothing

LEMMA PoolAllocateChunk ==
    ASSUME NEW size
    PROVE  Zones!AllocateChunk(size) <=> ZA!AllocateChunk(size)
  BY DEF Zones!AllocateChunk, ZA!AllocateChunk, Zones!isForZones,
         ZA!isForZones, Zones!shouldAllocateZone, ZA!shouldAllocateZone,
         Zones!zoneIdx, ZA!zoneIdx, Zones!Cardinality, ZA!Cardinality,
         Zones!chunkSize, ZA!chunkSize, Zones!getFreeZone, ZA!getFreeZone,
         Zones!Returns, ZA!Returns, Zones!AllocReply, ZA!AllocReply,
         Zones!takeChunk, ZA!takeChunk, Zones!with, ZA!with, Zones!firstChunk,
         ZA!firstChunk, Zones!Idle, ZA!Idle, Zones!Initialized,
         ZA!Initialized, Zones!isForPages, ZA!isForPages, Zones!ZoneIdx,
         ZA!ZoneIdx, Zones!zoneDescIdx, ZA!zoneDescIdx, Zones!Min, ZA!Min,
         Zones!SelectInSeq, ZA!SelectInSeq, Zones!NoCall, ZA!NoCall,
         Zones!Nothing, ZA!Nothing, Zones!zoneDescChunkSize,
         ZA!zoneDescChunkSize

LEMMA PoolAllocateStart ==
    ASSUME NEW size
    PROVE  Zones!AllocateStart(size) <=> ZA!AllocateStart(size)
  BY DEF Zones!AllocateStart, ZA!AllocateStart, Zones!isForZones,
         ZA!isForZones, Zones!shouldAllocateZone, ZA!shouldAllocateZone,
         Zones!zoneIdx, ZA!zoneIdx, Zones!Cardinality, ZA!Cardinality,
         Zones!chunkSize, ZA!chunkSize, Zones!NoReply, ZA!NoReply,
         Zones!zoneVars, ZA!zoneVars, Zones!Idle, ZA!Idle, Zones!Initialized,
         ZA!Initialized, Zones!isForPages, ZA!isForPages, Zones!ZoneIdx,
         ZA!ZoneIdx, Zones!zoneDescIdx, ZA!zoneDescIdx, Zones!Min, ZA!Min,
         Zones!Reply, ZA!Reply, Zones!zoneDescChunkSize, ZA!zoneDescChunkSize

LEMMA PoolAllocatePages ==
    ASSUME NEW size, NEW page
    PROVE  Zones!AllocatePages(size, page) <=> ZA!AllocatePages(size, page)
  BY DEF Zones!AllocatePages, ZA!AllocatePages, Zones!Idle, ZA!Idle,
         Zones!Initialized, ZA!Initialized, Zones!isForPages, ZA!isForPages,
         Zones!Returns, ZA!Returns, Zones!AllocReply, ZA!AllocReply,
         Zones!with, ZA!with, Zones!pageAddr, ZA!pageAddr, Zones!zoneVars,
         ZA!zoneVars, Zones!chunkSize, ZA!chunkSize, Zones!NoCall, ZA!NoCall,
         Zones!Nothing, ZA!Nothing, Zones!Min, ZA!Min

LEMMA PoolNeedsPage == Zones!NeedsPage <=> ZA!NeedsPage
  BY DEF Zones!NeedsPage, ZA!NeedsPage, Zones!needsDescZone, ZA!needsDescZone,
         Zones!descZone, ZA!descZone, Zones!frame, ZA!frame,
         Zones!zoneDescChunkSize, ZA!zoneDescChunkSize,
         Zones!shouldAllocateZone, ZA!shouldAllocateZone, Zones!zoneDescIdx,
         ZA!zoneDescIdx, Zones!getFreeZone, ZA!getFreeZone, Zones!chunkSize,
         ZA!chunkSize, Zones!zoneIdx, ZA!zoneIdx, Zones!Cardinality,
         ZA!Cardinality, Zones!SelectInSeq, ZA!SelectInSeq, Zones!Min, ZA!Min

LEMMA PoolAddZone ==
    ASSUME NEW page
    PROVE  Zones!AddZone(page) <=> ZA!AddZone(page)
  BY DEF Zones!AddZone, ZA!AddZone, Zones!NeedsPage, ZA!NeedsPage,
         Zones!frame, ZA!frame, Zones!zoneIdx, ZA!zoneIdx, Zones!Cardinality,
         ZA!Cardinality, Zones!newZone, ZA!newZone, Zones!takeChunk,
         ZA!takeChunk, Zones!zoneDescIdx, ZA!zoneDescIdx, Zones!with, ZA!with,
         Zones!descZone, ZA!descZone, Zones!newDesc, ZA!newDesc,
         Zones!firstChunk, ZA!firstChunk, Zones!Returns, ZA!Returns,
         Zones!AllocReply, ZA!AllocReply, Zones!needsDescZone,
         ZA!needsDescZone, Zones!zoneDescChunkSize, ZA!zoneDescChunkSize,
         Zones!getFreeZone, ZA!getFreeZone, Zones!NoCall, ZA!NoCall,
         Zones!Nothing, ZA!Nothing, Zones!shouldAllocateZone,
         ZA!shouldAllocateZone, Zones!chunkSize, ZA!chunkSize,
         Zones!SelectInSeq, ZA!SelectInSeq, Zones!Min, ZA!Min

LEMMA PoolZoneFails == Zones!ZoneFails <=> ZA!ZoneFails
  BY DEF Zones!ZoneFails, ZA!ZoneFails, Zones!NeedsPage, ZA!NeedsPage,
         Zones!descZone, ZA!descZone, Zones!takeChunk, ZA!takeChunk,
         Zones!zoneDescIdx, ZA!zoneDescIdx, Zones!newDesc, ZA!newDesc,
         Zones!needsDescZone, ZA!needsDescZone, Zones!getFreeZone,
         ZA!getFreeZone, Zones!zoneIdx, ZA!zoneIdx, Zones!Cardinality,
         ZA!Cardinality, Zones!zoneDescChunkSize, ZA!zoneDescChunkSize,
         Zones!firstChunk, ZA!firstChunk, Zones!frame, ZA!frame,
         Zones!shouldAllocateZone, ZA!shouldAllocateZone, Zones!SelectInSeq,
         ZA!SelectInSeq, Zones!chunkSize, ZA!chunkSize, Zones!Min, ZA!Min

LEMMA PoolAllocateDescZone == Zones!AllocateDescZone <=> ZA!AllocateDescZone
  BY DEF Zones!AllocateDescZone, ZA!AllocateDescZone, Zones!needsDescZone,
         ZA!needsDescZone, Zones!zoneDescChunkSize, ZA!zoneDescChunkSize,
         Zones!frame, ZA!frame, Zones!zoneVars, ZA!zoneVars,
         Zones!shouldAllocateZone, ZA!shouldAllocateZone, Zones!zoneDescIdx,
         ZA!zoneDescIdx, Zones!chunkSize, ZA!chunkSize, Zones!zoneIdx,
         ZA!zoneIdx, Zones!Cardinality, ZA!Cardinality, Zones!Min, ZA!Min

LEMMA PoolReleaseNull == Zones!ReleaseNull <=> ZA!ReleaseNull
  BY DEF Zones!ReleaseNull, ZA!ReleaseNull, Zones!Idle, ZA!Idle,
         Zones!Returns, ZA!Returns, Zones!Reply, ZA!Reply, Zones!zoneVars,
         ZA!zoneVars, Zones!NoCall, ZA!NoCall, Zones!Nothing, ZA!Nothing

LEMMA PoolRelease ==
    ASSUME NEW addr
    PROVE  Zones!Release(addr) <=> ZA!Release(addr)
  BY DEF Zones!Release, ZA!Release, Zones!Idle, ZA!Idle, Zones!without,
         ZA!without, Zones!NoReply, ZA!NoReply, Zones!zoneVars, ZA!zoneVars,
         Zones!Reply, ZA!Reply

LEMMA PoolFindZone ==
    ASSUME NEW addr
    PROVE  Zones!findZone(addr) = ZA!findZone(addr)
  BY DEF Zones!findZone, ZA!findZone, Zones!chunks, ZA!chunks, Zones!pageAddr,
         ZA!pageAddr

LEMMA PoolGiveChunk == Zones!GiveChunk <=> ZA!GiveChunk
  BY DEF Zones!GiveChunk, ZA!GiveChunk, Zones!Deallocating, ZA!Deallocating,
         Zones!findZone, ZA!findZone, Zones!zoneIdx, ZA!zoneIdx,
         Zones!Cardinality, ZA!Cardinality, Zones!isEmptied, ZA!isEmptied,
         Zones!givenBack, ZA!givenBack, Zones!DeallocateReturns,
         ZA!DeallocateReturns, Zones!chunks, ZA!chunks, Zones!pageAddr,
         ZA!pageAddr, Zones!giveChunk, ZA!giveChunk, Zones!Returns,
         ZA!Returns, Zones!AllocReply, ZA!AllocReply, Zones!Reply, ZA!Reply,
         Zones!NoCall, ZA!NoCall, Zones!Nothing, ZA!Nothing

LEMMA PoolRemoveZone == Zones!RemoveZone <=> ZA!RemoveZone
  BY DEF Zones!RemoveZone, ZA!RemoveZone, Zones!EmptiesZone, ZA!EmptiesZone,
         Zones!findZone, ZA!findZone, Zones!zoneIdx, ZA!zoneIdx,
         Zones!Cardinality, ZA!Cardinality, Zones!givenBack, ZA!givenBack,
         Zones!without, ZA!without, Zones!RemoveFirst, ZA!RemoveFirst,
         Zones!Deallocating, ZA!Deallocating, Zones!isEmptied, ZA!isEmptied,
         Zones!chunks, ZA!chunks, Zones!pageAddr, ZA!pageAddr,
         Zones!giveChunk, ZA!giveChunk, Zones!RemoveAt, ZA!RemoveAt,
         Zones!SelectInSeq, ZA!SelectInSeq, Zones!Min, ZA!Min

LEMMA PoolNotInZones == Zones!NotInZones <=> ZA!NotInZones
  BY DEF Zones!NotInZones, ZA!NotInZones, Zones!Deallocating, ZA!Deallocating,
         Zones!findZone, ZA!findZone, Zones!DeallocateReturns,
         ZA!DeallocateReturns, Zones!zoneVars, ZA!zoneVars, Zones!chunks,
         ZA!chunks, Zones!pageAddr, ZA!pageAddr, Zones!Returns, ZA!Returns,
         Zones!AllocReply, ZA!AllocReply, Zones!Reply, ZA!Reply, Zones!NoCall,
         ZA!NoCall, Zones!Nothing, ZA!Nothing

LEMMA PoolFreeRuns ==
    ASSUME NEW n PROVE Zones!Pages!FreeRuns(n) = ZA!Pages!FreeRuns(n)
  BY DEF Zones!Pages!FreeRuns, ZA!Pages!FreeRuns, Zones!Pages!Run, ZA!Pages!Run,
         Zones!Pages!Taken, ZA!Pages!Taken

LEMMA PoolInitPool ==
    ASSUME NEW size
    PROVE  Zones!InitPool(size) <=> ZA!InitPool(size)
  BY PoolInitFails, PoolInitSucceeds, Zenon
     DEF Zones!InitPool, ZA!InitPool, Zones!NoPages, ZA!NoPages,
         Zones!Nothing, ZA!Nothing

LEMMA PoolAllocateRun ==
    ASSUME NEW size
    PROVE  Zones!AllocateRun(size) <=> ZA!AllocateRun(size)
  BY PoolAllocatePages, PoolFreeRuns, Zenon
     DEF Zones!AllocateRun, ZA!AllocateRun, Zones!Idle, ZA!Idle,
         Zones!pagesFor, ZA!pagesFor, Zones!takeRun, ZA!takeRun, Zones!with,
         ZA!with

LEMMA PoolAllocateZone == Zones!AllocateZone <=> ZA!AllocateZone
  BY PoolNeedsPage, PoolZoneFails, PoolAddZone, PoolFreeRuns, Zenon
     DEF Zones!AllocateZone, ZA!AllocateZone, Zones!takeRun, ZA!takeRun,
         Zones!with, ZA!with

LEMMA PoolReleaseRun == Zones!ReleaseRun <=> ZA!ReleaseRun
  BY DEF Zones!ReleaseRun, ZA!ReleaseRun, Zones!getPage, ZA!getPage,
         Zones!giveRun, ZA!giveRun, Zones!without, ZA!without

LEMMA PoolNext == Zones!Next <=> ZA!Next
  BY PoolClear, PoolInitRejected, PoolInitPool, PoolAllocateRun,
     PoolAllocateNothing, PoolAllocateThrows, PoolAllocateChunk,
     PoolAllocateStart, PoolRelease, PoolReleaseNull, PoolAllocateDescZone,
     PoolAllocateZone, PoolGiveChunk, PoolRemoveZone, PoolFindZone,
     PoolNotInZones, PoolReleaseRun, Zenon
     DEF Zones!Next, ZA!Next, Zones!Call, ZA!Call, Zones!Step, ZA!Step,
         Zones!NoPages, ZA!NoPages, Zones!poolVars, ZA!poolVars,
         Zones!giveRun, ZA!giveRun, Zones!Nothing, ZA!Nothing, Zones!without,
         ZA!without

LEMMA PoolVars == Zones!vars = ZA!vars
  BY DEF Zones!vars, ZA!vars, Zones!zoneVars, ZA!zoneVars, Zones!callVars,
         ZA!callVars

LEMMA PoolInit == Zones!Init <=> ZA!Init
  BY PoolInitZones
     DEF Zones!Init, ZA!Init, Zones!Nothing, ZA!Nothing

-----------------------------------------------------------------------------
(***************************************************************************)
(* What the allocators promise holds of the library.                       *)
(***************************************************************************)

\* The page allocator of the library is one: no call of the zone allocator
\* takes it out of what PageAllocator's own loops, allocate and release do.
THEOREM PagesCorrect == Spec => PA!Spec
<1>1. Init => PA!Init
  BY PagesInit DEF Init
<1>2. Inv /\ [Next]_vars => [PA!Next]_(PA!vars)
  BY NextMoves DEF Moves, pagesVars, PA!vars
<1> QED
  BY <1>1, <1>2, InvCorrect, PTL DEF Spec, PA!Spec

LEMMA ZonesCorrect == Spec => ZA!Spec
<1>1. Inv /\ [Next]_vars => [ZA!Next]_(ZA!vars)
  BY NextMoves DEF Moves
<1> QED
  BY <1>1, ZonesStart, InvCorrect, PTL DEF Spec, ZA!Spec

\* ZoneAllocator over PageAllocator behaves as ZoneAllocator over the pool of
\* its interface: every step of the library, the loops of the page allocator
\* included, is a step of ZonesOverPool or leaves its state alone.
THEOREM ZonesOverPoolImplemented == Spec => ImplementsZonesOverPool
<1>1. ZA!Init => Zones!Init
  BY PoolInit
<1>2. [ZA!Next]_(ZA!vars) => [Zones!Next]_(Zones!vars)
  <2>1. (Zones!vars)' = (ZA!vars)'
    BY DEF Zones!vars, ZA!vars, Zones!zoneVars, ZA!zoneVars, Zones!callVars,
           ZA!callVars
  <2> QED BY <2>1, PoolNext, PoolVars
<1> QED
  BY <1>1, <1>2, ZonesCorrect, PTL
     DEF ZA!Spec, ImplementsZonesOverPool, Zones!Spec

\* The library is a heap: every block allocate returns is large enough, lies in
\* the memory init was given and overlaps no block that a caller still holds.
THEOREM HeapImplemented == Spec => ZA!ImplementsHeap
<1> QED
  BY ZonesCorrect, ZA!HeapCorrect, ZonesAssumption

-----------------------------------------------------------------------------
(* The pages the zone allocator holds.                                     *)

LEMMA ZonesIsFiniteSet ==
    ASSUME NEW S PROVE ZA!IsFiniteSet(S) <=> IsFiniteSet(S)
  BY DEF ZA!IsFiniteSet, IsFiniteSet

LEMMA ZonesCardinality ==
    ASSUME NEW S PROVE ZA!Cardinality(S) = Cardinality(S)
  BY DEF ZA!Cardinality, Cardinality

LEMMA PagesCardinality ==
    ASSUME NEW S PROVE PA!Cardinality(S) = Cardinality(S)
  BY DEF PA!Cardinality, Cardinality

LEMMA ZonesWeight ==
    ASSUME NEW F, NEW S PROVE ZA!Weight(F, S) = Weight(F, S)
  BY ZonesCardinality
     DEF ZA!Weight, Weight, ZA!UnionOf, UnionOf, ZA!Columns, Columns

clientPages == UNION {PA!HeldPages(g) : g \in DOMAIN groups}

LEMMA HandedOut ==
    ASSUME Inv, Initialized, PagesIdle
    PROVE  /\ IsFiniteSet(DOMAIN zonePages)
           /\ Cardinality(clientPages) * pageSize =
                 Weight(ZA!PageBytes, DOMAIN zonePages)
<1>1. PICK ps \in Nat \ {0} : ps = pageSize
  BY ServingPages
<1>2. PICK N : N = 1..ps OBVIOUS
<1>3. IsFiniteSet(N) /\ Cardinality(N) = ps
  BY <1>1, <1>2, CountTo
<1>4. PICK D : D = DOMAIN zonePages OBVIOUS
<1>5. PICK A : A = [n \in D |-> PA!HeldPages(groupOf(n)) \X N] BY Zenon
<1>6. PA!HeldIntact
  BY PA!HeldIntactHolds, PagesAssumption, Zenon DEF Inv
<1>7. DOMAIN groups \subseteq PA!Page /\ IsFiniteSet(PA!Page)
  <2>1. pagesCount \in Nat
    BY ServingPages, PA!TableFacts, PagesAssumption
  <2> QED BY <2>1, PagesSeen, FS_Interval DEF PA!Page
<1>8. IsFiniteSet(D)
  <2>1. IsFiniteSet(DOMAIN groups)
    BY <1>7, FS_Subset
  <2>2. PICK B : B = [g \in DOMAIN groups |-> {pageNumber(g)}] BY Zenon
  <2>3. FiniteFamily(B, DOMAIN groups)
    BY <2>2, FS_Singleton, Zenon DEF FiniteFamily
  <2>4. ASSUME NEW n PROVE n \in UnionOf(B, DOMAIN groups) <=> n \in D
    BY <1>4, <2>2, InUnion, PagesSeen
  <2>5. UnionOf(B, DOMAIN groups) = D
    BY <2>4
  <2> QED BY <2>1, <2>3, <2>5, FamilyFinite
<1>9. ASSUME NEW n \in D
      PROVE  IsFiniteSet(A[n]) /\ Cardinality(A[n]) = ZA!PageBytes[n]
  <2>1. PICK g \in DOMAIN groups : g = groupOf(n) /\ pageNumber(g) = n
    BY <1>4, PagesSeen
  <2>2. PICK c \in Nat \ {0} : c = groups[g] /\ c = zonePages[n]
    BY <2>1, PagesSeen
  <2>3. PICK R : R = g..(g + c - 1) OBVIOUS
  <2>4. PICK f \in Nat : f = g
    BY <1>7 DEF PA!Page
  <2>5. IsFiniteSet(R) /\ Cardinality(R) = c
    <3>1. IsFiniteSet(f..(f + c - 1))
          /\ Cardinality(f..(f + c - 1)) =
                IF f > f + c - 1 THEN 0 ELSE (f + c - 1) - f + 1
      BY FS_Interval
    <3> QED BY <2>3, <2>4, <3>1
  <2>6. IsFiniteSet(R \X N) /\ Cardinality(R \X N) = c * ps
    BY <1>3, <2>5, FS_Product
  <2>7. A[n] = R \X N
    BY <1>5, <2>1, <2>2, <2>3, Zenon DEF PA!HeldPages
  <2>8. ZA!PageBytes[n] = c * ps
    BY <1>1, <1>4, <2>2 DEF ZA!PageBytes
  <2> QED BY <2>6, <2>7, <2>8
<1>10. FiniteFamily(A, D)
  BY <1>9 DEF FiniteFamily
<1>11. FamilyApart(A, D)
  <2> SUFFICES ASSUME NEW m \in D, NEW n \in D, m # n PROVE A[m] \cap A[n] = {}
    BY DEF FamilyApart
  <2>1. PICK g \in DOMAIN groups : g = groupOf(m) /\ pageNumber(g) = m
    BY <1>4, PagesSeen
  <2>2. PICK h \in DOMAIN groups : h = groupOf(n) /\ pageNumber(h) = n
    BY <1>4, PagesSeen
  <2>3. PA!HeldPages(g) \cap PA!HeldPages(h) = {}
    BY <1>6, <2>1, <2>2 DEF PA!HeldIntact
  <2> QED BY <1>5, <2>1, <2>2, <2>3
<1>12. ASSUME NEW e PROVE e \in UnionOf(A, D) <=> e \in clientPages \X N
  <2>1. e \in UnionOf(A, D) <=> \E n \in D : e \in PA!HeldPages(groupOf(n)) \X N
    BY <1>5, InUnion
  <2>2. \A n \in D : groupOf(n) \in DOMAIN groups
    BY <1>4, PagesSeen
  <2>3. \A g \in DOMAIN groups : pageNumber(g) \in D /\ groupOf(pageNumber(g)) = g
    BY <1>4, <1>7, PagesSeen, Numbers
  <2>4. ASSUME NEW n \in D, e \in PA!HeldPages(groupOf(n)) \X N
        PROVE  e \in clientPages \X N
    BY <2>2, <2>4 DEF clientPages
  <2>5. ASSUME e \in clientPages \X N
        PROVE  \E n \in D : e \in PA!HeldPages(groupOf(n)) \X N
    <3>1. PICK g \in DOMAIN groups : e \in PA!HeldPages(g) \X N
      BY <2>5 DEF clientPages
    <3> QED BY <2>3, <3>1
  <2> QED BY <2>1, <2>4, <2>5
<1>13. UnionOf(A, D) = clientPages \X N
  BY <1>12
<1>14. Cardinality(UnionOf(A, D)) = Weight(ZA!PageBytes, D)
  <2>1. D \in SUBSET DOMAIN ZA!PageBytes
    BY <1>4 DEF ZA!PageBytes
  <2> QED BY <1>8, <1>9, <1>10, <1>11, <2>1, WeightFamily
<1>15. IsFiniteSet(clientPages)
  <2>1. clientPages \subseteq PA!Page
    BY <1>6 DEF PA!HeldIntact, clientPages
  <2> QED BY <1>7, <2>1, FS_Subset
<1>16. Cardinality(clientPages \X N) = Cardinality(clientPages) * ps
  BY <1>3, <1>15, FS_Product
<1> QED BY <1>1, <1>4, <1>8, <1>13, <1>14, <1>16, Zenon

-----------------------------------------------------------------------------
(* NothingLost.                                                            *)

\* A free page is no client's and holds no descriptors.
LEMMA FreePages ==
    ASSUME Inv, Initialized, PagesIdle
    PROVE  /\ pool.freePagesCount \in Nat /\ descPagesCount \in Nat
           /\ Cardinality(clientPages) \in Nat
           /\ pagesCount =
                 pool.freePagesCount + Cardinality(clientPages) + descPagesCount
<1>1. PA!Initialized
  BY DEF Inv, InitializedInv, PA!Initialized, PagesIdle
<1> QED BY <1>1, PA!PagesSplit, PagesCardinality, PagesAssumption
        DEF Inv, clientPages

LEMMA OnlyOnePage ==
    ASSUME Inv, Idle, PagesIdle, Initialized, held = Nothing
    PROVE  DOMAIN zones = {initialZone} /\ Cardinality(clientPages) = 1
<1>1. ZA!Idle /\ ZA!Initialized /\ held = ZA!Nothing
  BY DEF Idle, ZA!Idle, Initialized, ZA!Initialized, Nothing, ZA!Nothing
<1>2. DOMAIN zones = {initialZone}
  <2>1. ZA!Inv /\ ZA!OriginInv
    BY DEF Inv
  <2>2. DOMAIN zones \subseteq {initialZone}
    BY <1>1, <2>1, ZA!OnlyInitialZone, ZonesAssumption
  <2> QED BY <2>2 DEF Initialized
<1>3. PICK n : n = zones[initialZone].page OBVIOUS
<1>4. /\ n \in DOMAIN zonePages /\ zonePages[n] = 1
      /\ \A m \in DOMAIN zonePages : m = n
  <2>1. ZA!PagesOwned
    BY DEF Inv, ZA!Inv
  <2>2. ZA!Deallocated = {} /\ DOMAIN held = {}
    BY <1>1 DEF ZA!Deallocated, ZA!Deallocating, ZA!Idle, Nothing
  <2> QED BY <1>2, <1>3, <2>1, <2>2 DEF ZA!PagesOwned
<1>5. PICK g \in DOMAIN groups : g = groupOf(n) /\ pageNumber(g) = n
  BY <1>4, PagesSeen
<1>6. groups[g] = 1 /\ DOMAIN groups = {g}
  <2>1. groups[g] = 1
    BY <1>4, <1>5, PagesSeen
  <2>2. ASSUME NEW h \in DOMAIN groups PROVE h = g
    <3>1. pageNumber(h) = n
      BY <1>4, PagesSeen
    <3> QED BY <1>5, <3>1, PagesSeen, Numbers
  <2> QED BY <2>1, <2>2
<1>7. g \in Nat
  BY PagesSeen DEF PA!Page
<1>8. clientPages = {g}
  BY <1>6, <1>7 DEF clientPages, PA!HeldPages
<1> QED BY <1>2, <1>8, FS_Singleton, Zenon

LEMMA InvNothingLost == Inv /\ ZA!ZonesFunction => NothingLost
<1> SUFFICES ASSUME Inv, ZA!ZonesFunction, Resting, Initialized, held = Nothing
             PROVE  /\ zones = [z \in {initialZone} |-> zones[z]]
                    /\ Pages!getStats.freePagesCount =
                          Pages!getStats.totalPagesCount
                             - Pages!getStats.reservedPagesCount - 1
  BY DEF NothingLost
<1>1. DOMAIN zones = {initialZone} /\ Cardinality(clientPages) = 1
  BY OnlyOnePage DEF Resting
<1>2. zones = [z \in {initialZone} |-> zones[z]]
  BY <1>1 DEF ZA!ZonesFunction
<1>3. pool.freePagesCount = pagesCount - descPagesCount - 1
  BY <1>1, FreePages DEF Resting
<1> QED BY <1>2, <1>3, PagesGetStats DEF PA!getStats

\* A caller that has released everything it held finds the library as init
\* left it, whatever it did before: one zone, and every other page free.
THEOREM NothingLostCorrect == Spec => []NothingLost
<1>1. Spec => []ZA!ZonesFunction
  BY ZonesCorrect, ZA!ZonesFunctionAlways, ZonesAssumption
<1> QED BY <1>1, InvCorrect, InvNothingLost, PTL

-----------------------------------------------------------------------------
(* LibraryStatsExact.                                                      *)

LEMMA PagesRegionsSize == regionsSize = PA!regionBytes
  BY DEF regionsSize, PA!regionBytes, MapThenSumSet, PA!MapThenSumSet,
         MapThenFoldSet, PA!MapThenFoldSet

LEMMA ZonesHeldMemory == MapThenSumSet(blockSize, DOMAIN held) = ZA!heldMemory
  BY DEF ZA!heldMemory, ZA!heldSize, blockSize, MapThenSumSet,
         ZA!MapThenSumSet, MapThenFoldSet, ZA!MapThenFoldSet, InZones,
         ZA!InZones, zoneChunks, ZA!zoneChunks, chunks, ZA!chunks, pageAddr,
         ZA!pageAddr, chunkSize, ZA!chunkSize, Min, ZA!Min, pagesFor,
         ZA!pagesFor

LEMMA ZonesCounters ==
    /\ usedMemorySize = ZA!usedMemorySize
    /\ reservedMemorySize = ZA!reservedMemorySize
    /\ freeMemorySize = ZA!freeMemorySize
    /\ allocatedMemorySize = ZA!allocatedMemorySize
<1>1. usedZonesCount = ZA!usedZonesCount
  BY DEF usedZonesCount, ZA!usedZonesCount, MapThenSumSet, ZA!MapThenSumSet,
         MapThenFoldSet, ZA!MapThenFoldSet, ZoneIdx, ZA!ZoneIdx
<1>2. usedMemorySize = ZA!usedMemorySize
  BY <1>1 DEF usedMemorySize, ZA!usedMemorySize
<1>3. reservedMemorySize = ZA!reservedMemorySize
  BY <1>1 DEF reservedMemorySize, ZA!reservedMemorySize, zoneDescChunkSize,
              ZA!zoneDescChunkSize, chunkSize, ZA!chunkSize, Min, ZA!Min
<1>4. freeMemorySize = ZA!freeMemorySize
  BY DEF freeMemorySize, ZA!freeMemorySize, MapThenSumSet, ZA!MapThenSumSet,
         MapThenFoldSet, ZA!MapThenFoldSet, ZoneIdx, ZA!ZoneIdx
<1>5. allocatedMemorySize = ZA!allocatedMemorySize
  BY <1>2, <1>3, <1>4 DEF allocatedMemorySize, ZA!allocatedMemorySize
<1> QED BY <1>2, <1>3, <1>4, <1>5

\* The zones fill their pages, the clients' runs the other pages held, and
\* what the clients hold are these runs and the chunks handed out.
LEMMA ClientBytes ==
    ASSUME Inv, Idle, PagesIdle, Initialized
    PROVE  /\ reservedMemorySize \in Nat /\ freeMemorySize \in Nat
           /\ allocatedMemorySize \in Nat
           /\ usedMemorySize =
                 allocatedMemorySize + reservedMemorySize + freeMemorySize
           /\ \E runs \in Nat :
                 /\ Cardinality(clientPages) * pageSize = usedMemorySize + runs
                 /\ MapThenSumSet(blockSize, DOMAIN held) = allocatedMemorySize + runs
<1>1. ZA!Inv /\ ZA!OriginInv /\ ZA!Idle /\ ZA!Initialized
  BY DEF Inv, Idle, ZA!Idle, Initialized, ZA!Initialized
<1>2. ZA!IsFiniteSet(DOMAIN zonePages)
  BY HandedOut, ZonesIsFiniteSet
<1>3. Cardinality(clientPages) * pageSize = ZA!Weight(ZA!PageBytes, DOMAIN zonePages)
  BY HandedOut, ZonesWeight
<1>4. PICK runs \in Nat :
          /\ ZA!Weight(ZA!PageBytes, DOMAIN zonePages) = ZA!usedMemorySize + runs
          /\ ZA!heldMemory = ZA!allocatedMemorySize + runs
  BY <1>1, <1>2, ZA!HeldMemory, ZonesAssumption
<1>5. /\ ZA!reservedMemorySize \in Nat /\ ZA!freeMemorySize \in Nat
      /\ ZA!allocatedMemorySize \in Nat
      /\ ZA!usedMemorySize =
            ZA!allocatedMemorySize + ZA!reservedMemorySize + ZA!freeMemorySize
  BY <1>1, ZA!ZoneBytes, ZonesAssumption, Zenon
<1> QED BY <1>3, <1>4, <1>5, ZonesCounters, ZonesHeldMemory

LEMMA InvLibraryStats == Inv => LibraryStatsExact
<1> SUFFICES ASSUME Inv, Resting, Initialized, regionsSize < 2^UnsignedBits
             PROVE  /\ getStats \in Stats
                    /\ getStats.allocatedMemorySize =
                          MapThenSumSet(blockSize, DOMAIN held)
                    /\ getStats.freeMemorySize =
                          pool.freePagesCount * pageSize + freeMemorySize
  BY DEF LibraryStatsExact
<1>1. Idle /\ PagesIdle /\ PA!Initialized
  BY DEF Resting, Inv, InitializedInv, PA!Initialized, PagesIdle
<1>2. PICK ps \in Nat : ps = pageSize /\ ps = pagesPageSize
  BY ServingPages
<1>3. PICK stats : stats = PA!getStats OBVIOUS
<1>4. PICK total \in Nat, whole \in Nat :
          /\ total = stats.totalMemorySize /\ whole = stats.effectiveMemorySize
          /\ whole <= total
          /\ whole = pagesCount * ps
  BY <1>1, <1>2, <1>3, PagesRegionsSize, PA!RegionStats, PagesAssumption DEF Inv
<1>5. PICK free, c, d \in Nat :
          /\ free = pool.freePagesCount /\ c = Cardinality(clientPages)
          /\ d = descPagesCount
          /\ pagesCount = free + c + d
  BY <1>1, FreePages
<1>6. PICK f \in Nat : f = free * ps
  BY NatProduct
<1>7. PICK cb \in Nat : cb = c * ps
  BY NatProduct
<1>8. PICK r \in Nat : r = d * ps /\ r = ps * d
  BY NatProduct
<1>9. whole = f + cb + r
  <2>1. (free + c + d) * ps = free * ps + c * ps + d * ps
    OBVIOUS
  <2> QED BY <1>4, <1>5, <1>6, <1>7, <1>8, <2>1
<1>10. /\ stats.userMemorySize = whole - r
       /\ stats.freeMemorySize = f
       /\ stats.reservedPagesCount * stats.pageSize = r
  BY <1>2, <1>3, <1>4, <1>5, <1>6, <1>8 DEF PA!getStats
<1>11. PICK res, left, alloc \in Nat :
          /\ res = reservedMemorySize /\ left = freeMemorySize
          /\ alloc = allocatedMemorySize
          /\ usedMemorySize = alloc + res + left
  BY <1>1, ClientBytes
<1>12. PICK runs \in Nat :
          /\ cb = usedMemorySize + runs
          /\ MapThenSumSet(blockSize, DOMAIN held) = alloc + runs
  BY <1>1, <1>2, <1>5, <1>7, <1>11, ClientBytes
<1>13. usedByUser(stats) = alloc + runs
  BY <1>9, <1>10, <1>11, <1>12 DEF usedByUser
<1>14. PICK mine : mine = getStats OBVIOUS
<1>15. /\ mine.totalMemorySize = total
       /\ mine.reservedMemorySize = total - whole + r + res
       /\ mine.userMemorySize = total - (total - whole + r + res)
       /\ mine.allocatedMemorySize = alloc + runs
       /\ mine.freeMemorySize = total - (total - whole + r + res) - (alloc + runs)
       /\ mine = [totalMemorySize     |-> mine.totalMemorySize,
                  reservedMemorySize  |-> mine.reservedMemorySize,
                  userMemorySize      |-> mine.userMemorySize,
                  allocatedMemorySize |-> mine.allocatedMemorySize,
                  freeMemorySize      |-> mine.freeMemorySize]
  BY <1>3, <1>4, <1>10, <1>11, <1>13, <1>14, PagesGetStats, Zenon DEF getStats
<1>16. /\ mine.freeMemorySize = f + left
       /\ mine.userMemorySize = f + left + alloc + runs
  BY <1>9, <1>11, <1>12, <1>15
<1>17. mine.reservedMemorySize \in Nat
  BY <1>4, <1>15
<1>18. mine \in Stats
  BY <1>15, <1>16, <1>17 DEF Stats
<1> QED BY <1>2, <1>5, <1>6, <1>11, <1>12, <1>14, <1>15, <1>16, <1>18

\* getStats of the library is exact after any history of calls: what it says
\* is allocated is what the callers hold, what it says is free is the free
\* pages and the free chunks, and no difference of its counters wraps.
THEOREM LibraryStatsCorrect == Spec => []LibraryStatsExact
  BY InvCorrect, InvLibraryStats, PTL
=============================================================================
