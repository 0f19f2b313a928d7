---------------------------- MODULE ZoneAllocator ----------------------------
(***************************************************************************)
(* The allocator of small chunks (lib/ZoneAllocator.cpp).  What the page   *)
(* allocator answers is a parameter of the actions that ask it: modules    *)
(* ZonesOverPool and Allocator say what it may be.                         *)
(*                                                                         *)
(* A zone is known by the address of its descriptor, which is a chunk of   *)
(* another zone; only the descriptor of the initial zone lies elsewhere.   *)
(* Page p is the one at address p * pageSize.                              *)
(*                                                                         *)
(* allocateZone and deallocateChunk call themselves, and change the lists  *)
(* they read before they do.  They run one call per step, and phase says   *)
(* which one runs and for whom:                                            *)
(*                                                                         *)
(*   "allocate"   allocateZone                                             *)
(*   "undo"       deallocateChunk for an allocateZone that got no page     *)
(*   "release"    deallocateChunk for release                              *)
(***************************************************************************)
EXTENDS Zone, FiniteSetsExt, SequencesExt

CONSTANTS
    PageSizes,        \* the page sizes the page allocator accepts
    AllocSizes,       \* the sizes a client asks for
    MinimalAllocSize, \* minimalAllocSize(): 16
    ZoneDescSize,     \* sizeof(Zone)
    MaxZoneIdx,       \* m_cMaxZoneIdx: 8
    AddrBits,         \* width of an address
    initialZone,      \* &m_initialZone
    nullptr

ASSUME NamesAssumption == initialZone \notin Int /\ nullptr \notin Int
                          /\ initialZone # nullptr

ASSUME SizesAssumption ==
    /\ MinimalAllocSize \in Nat \ {0}
    /\ ZoneDescSize \in Nat \ {0}
    /\ MaxZoneIdx \in Nat \ {0}
    /\ PageSizes \subseteq Nat \ {0}
    /\ AllocSizes \subseteq Nat

VARIABLES
    pageSize,    \* m_pageSize; 0 when not initialized
    zones,       \* descriptor -> Zone, for the zones that are in a list
    zoneLists,   \* m_zones[idx].head
    freeChunks,  \* m_zones[idx].freeChunksCount
    phase,
    frames,      \* the calls of allocateZone that run, the innermost first
    chunk,       \* the argument of deallocateChunk
    argument,    \* the argument of allocate or release while it runs
    held,        \* ghost: block a client holds -> the size it asked for
    reply,       \* ghost: the last call and what it returned
    before       \* ghost: what allocateZone has to restore if it fails

zoneVars == <<zones, zoneLists, freeChunks>>
callVars == <<phase, frames, chunk, argument>>
allocatorVars == <<pageSize, zoneVars, callVars, held, reply, before>>

Nothing == [x \in {} |-> 0]
Reply(op, result) == [op |-> op, size |-> 0, result |-> result]
AllocReply(size, result) == [op |-> "allocate", size |-> size, result |-> result]
NoReply == Reply("none", nullptr)

ZoneIdx == 0..(MaxZoneIdx - 1)

\* A function with one more or one less point, or another value at a point.
with(f, x, value) == [y \in DOMAIN f \cup {x} |-> IF y = x THEN value ELSE f[y]]
without(f, x) == [y \in DOMAIN f \ {x} |-> f[y]]

-----------------------------------------------------------------------------
(* Helpers of the source that compute a value.                             *)

\* Mutant: a size is rounded down.
chunkSize_Down(size) ==
    Max({2^k : k \in {l \in 0..(AddrBits - 1) :
                         2^l <= size \/ 2^l <= MinimalAllocSize}})

\* The smallest power of two that is large enough.
chunkSize(size) ==
    Min({2^k : k \in {l \in 0..(AddrBits - 1) :
                         2^l >= size /\ 2^l >= MinimalAllocSize}})

\* std::floor(std::log2(chunkSize)) - 4.
zoneIdx(size) == Cardinality({k \in 5..(AddrBits - 1) : 2^k <= size})

zoneDescChunkSize == chunkSize(ZoneDescSize)
zoneDescIdx == zoneIdx(zoneDescChunkSize)

pageAddr(page) == page * pageSize

getFreeZone(idx) ==
    LET k == SelectInSeq(zoneLists[idx],
                         LAMBDA z : zones[z].freeChunksCount > 0)
    IN  IF k = 0 THEN nullptr ELSE zoneLists[idx][k]

\* Mutant: zones of descriptors wait for the last chunk, as the others do.
shouldAllocateZone_NoReserve(idx) == freeChunks[idx] = 0

\* Mutant: the two triggers are swapped.
shouldAllocateZone_Swapped(idx) ==
    freeChunks[idx] = IF idx = zoneDescIdx THEN 0 ELSE 1

shouldAllocateZone(idx) ==
    freeChunks[idx] = IF idx = zoneDescIdx THEN 1 ELSE 0

\* The zone whose page the address is on, if it is the start of a chunk.
findZone(addr) ==
    LET found == {z \in DOMAIN zones :
                     addr \in chunks(pageAddr(zones[z].page), pageSize,
                                     zones[z].chunkSize)}
    IN  IF found = {} THEN nullptr ELSE CHOOSE z \in found : TRUE

-----------------------------------------------------------------------------
EmptyLists == [idx \in ZoneIdx |-> <<>>]
NoChunks == [idx \in ZoneIdx |-> 0]
Idle == phase = "idle"
Initialized == initialZone \in DOMAIN zones

NoCall == phase' = "idle" /\ frames' = <<>> /\ chunk' = nullptr /\ argument' = 0
Returns(result) == NoCall /\ reply' = result /\ before' = Nothing

InitZones ==
    /\ pageSize = 0
    /\ zones = Nothing
    /\ zoneLists = EmptyLists
    /\ freeChunks = NoChunks
    /\ phase = "idle" /\ frames = <<>> /\ chunk = nullptr /\ argument = 0
    /\ held = Nothing
    /\ reply = NoReply
    /\ before = Nothing

\* The assignments of ZoneAllocator::clear.
clear(size) ==
    /\ pageSize' = size
    /\ zones' = Nothing
    /\ zoneLists' = EmptyLists
    /\ freeChunks' = NoChunks
    /\ held' = Nothing

Clear == Idle /\ clear(0) /\ Returns(Reply("clear", nullptr))

\* init is not called at all: the page allocator was not initialized.
InitRejected == Idle /\ clear(0) /\ Returns(Reply("init", FALSE))

\* There is no page for the initial zone.
InitFails(size) == Idle /\ clear(size) /\ Returns(Reply("init", FALSE))

InitSucceeds(size, page) ==
    /\ Idle
    /\ LET zone == newZone(page, size, zoneDescChunkSize)
       IN  /\ zones' = [z \in {initialZone} |-> zone]
           /\ zoneLists' = [EmptyLists EXCEPT ![zoneDescIdx] = <<initialZone>>]
           /\ freeChunks' = [NoChunks EXCEPT ![zoneDescIdx] = zone.freeChunksCount]
    /\ pageSize' = size
    /\ held' = Nothing
    /\ Returns(Reply("init", TRUE))

-----------------------------------------------------------------------------
(* allocate                                                                *)

\* Sizes that are served by whole pages.
isForPages(size) == size >= pageSize \/ chunkSize(size) >= pageSize

AllocateNothing(size) ==
    /\ Idle /\ Initialized
    /\ size = 0
    /\ Returns(AllocReply(size, nullptr))
    /\ UNCHANGED <<pageSize, zoneVars, held>>

pagesFor(size) == (size + pageSize - 1) \div pageSize

AllocatePages(size, page) ==
    /\ Idle /\ Initialized
    /\ size # 0
    /\ isForPages(size)
    /\ IF page = nullptr
       THEN /\ Returns(AllocReply(size, nullptr))
            /\ UNCHANGED held
       ELSE /\ held' = with(held, pageAddr(page), size)
            /\ Returns(AllocReply(size, pageAddr(page)))
    /\ UNCHANGED <<pageSize, zoneVars>>

\* m_zones.at throws std::out_of_range.
AllocateThrows(size) ==
    /\ Idle /\ Initialized
    /\ size # 0
    /\ ~isForPages(size)
    /\ zoneIdx(chunkSize(size)) \notin ZoneIdx
    /\ Returns([op |-> "throws", size |-> size, result |-> nullptr])
    /\ UNCHANGED <<pageSize, zoneVars, held>>

isForZones(size) ==
    /\ Idle /\ Initialized
    /\ size # 0
    /\ ~isForPages(size)
    /\ zoneIdx(chunkSize(size)) \in ZoneIdx

AllocateChunk(size) ==
    /\ isForZones(size)
    /\ ~shouldAllocateZone(zoneIdx(chunkSize(size)))
    /\ LET idx  == zoneIdx(chunkSize(size))
           zone == getFreeZone(idx)
       IN  IF zone = nullptr
           THEN /\ Returns(AllocReply(size, nullptr))
                /\ UNCHANGED <<zones, freeChunks, held>>
           ELSE /\ zones' = [zones EXCEPT ![zone] = takeChunk(@)]
                /\ freeChunks' = [freeChunks EXCEPT ![idx] = @ - 1]
                /\ held' = with(held, firstChunk(zones[zone]), size)
                /\ Returns(AllocReply(size, firstChunk(zones[zone])))
    /\ UNCHANGED <<pageSize, zoneLists>>

\* The first call of allocateZone.
AllocateStart(size) ==
    /\ isForZones(size)
    /\ shouldAllocateZone(zoneIdx(chunkSize(size)))
    /\ phase' = "allocate"
    /\ frames' = <<[chunkSize |-> chunkSize(size), checked |-> FALSE]>>
    /\ argument' = size
    /\ reply' = NoReply
    /\ before' = zoneVars
    /\ UNCHANGED <<pageSize, zoneVars, chunk, held>>

frame == Head(frames)

needsDescZone ==
    /\ ~frame.checked
    /\ frame.chunkSize # zoneDescChunkSize
    /\ shouldAllocateZone(zoneDescIdx)

\* Mutant: the inner call comes back without having done anything.
AllocateDescZone_Retry ==
    /\ phase = "allocate"
    /\ needsDescZone
    /\ UNCHANGED allocatorVars

\* allocateZone calls itself for a zone of descriptors.
AllocateDescZone ==
    /\ phase = "allocate"
    /\ needsDescZone
    /\ frames' = <<[chunkSize |-> zoneDescChunkSize, checked |-> FALSE],
                   [frame EXCEPT !.checked = TRUE]>> \o Tail(frames)
    /\ UNCHANGED <<pageSize, zoneVars, phase, chunk,
                   argument, held, reply, before>>

\* The zone the new descriptor is taken from, and the descriptor.
descZone == getFreeZone(zoneDescIdx)
newDesc == firstChunk(zones[descZone])

\* allocateZone comes to initZone, which asks for a page.
NeedsPage == phase = "allocate" /\ ~needsDescZone /\ descZone # nullptr

\* initZone, addZone, and, in the outermost call, the chunk for the client.
AddZone(page) ==
    /\ NeedsPage
    /\ LET size   == frame.chunkSize
           idx    == zoneIdx(size)
           zone   == newZone(page, pageSize, size)
           isLast == Len(frames) = 1
           \* The client's chunk comes out of the new zone.
           used   == IF isLast THEN takeChunk(zone) ELSE zone
           taken  == [freeChunks EXCEPT ![zoneDescIdx] = @ - 1]
       IN  /\ zones' = with([zones EXCEPT ![descZone] = takeChunk(@)],
                            newDesc, used)
           /\ zoneLists' = [zoneLists EXCEPT ![idx] = <<newDesc>> \o @]
           /\ freeChunks' = [taken EXCEPT ![idx] = @ + used.freeChunksCount]
           /\ IF isLast
              THEN /\ held' = with(held, firstChunk(zone), argument)
                   /\ Returns(AllocReply(argument, firstChunk(zone)))
              ELSE /\ frames' = Tail(frames)
                   /\ UNCHANGED <<phase, chunk, argument, held, reply, before>>
    /\ UNCHANGED pageSize

\* Mutant: the descriptor is not given back.
ZoneFails_Leak ==
    /\ NeedsPage
    /\ zones' = [zones EXCEPT ![descZone] = takeChunk(@)]
    /\ freeChunks' = [freeChunks EXCEPT ![zoneDescIdx] = @ - 1]
    /\ Returns(AllocReply(argument, nullptr))
    /\ UNCHANGED <<pageSize, zoneLists, held>>

\* No page is left: the descriptor has to be given back.
ZoneFails ==
    /\ NeedsPage
    /\ zones' = [zones EXCEPT ![descZone] = takeChunk(@)]
    /\ freeChunks' = [freeChunks EXCEPT ![zoneDescIdx] = @ - 1]
    /\ phase' = "undo"
    /\ chunk' = newDesc
    /\ UNCHANGED <<pageSize, zoneLists, frames, argument,
                   held, reply, before>>

-----------------------------------------------------------------------------
(* release                                                                 *)

ReleaseNull ==
    /\ Idle
    /\ Returns(Reply("release", nullptr))
    /\ UNCHANGED <<pageSize, zoneVars, held>>

Release(addr) ==
    /\ Idle
    /\ phase' = "release"
    /\ chunk' = addr
    /\ argument' = addr
    /\ held' = without(held, addr)
    /\ reply' = NoReply
    /\ UNCHANGED <<pageSize, zoneVars, frames, before>>

Deallocating == phase \in {"undo", "release"}

\* The end of deallocateChunk, whatever it returned: allocateZone and allocate
\* return nullptr, release is done.
DeallocateReturns ==
    IF phase = "undo"
    THEN Returns(AllocReply(argument, nullptr))
    ELSE Returns(Reply("release", nullptr))

\* The state of the zones with the chunk given back, and whether its zone is
\* to be removed.
givenBack(z) == [zones EXCEPT ![z] = giveChunk(@, chunk)]
\* Mutant: the initial zone is no exception.
isEmptied_Initial(z) ==
    givenBack(z)[z].freeChunksCount = zones[z].chunksCount

\* Mutant: the test comes before the chunk is given back.
isEmptied_Before(z) ==
    /\ zones[z].freeChunksCount = zones[z].chunksCount
    /\ z # initialZone

isEmptied(z) ==
    /\ givenBack(z)[z].freeChunksCount = zones[z].chunksCount
    /\ z # initialZone

GiveChunk ==
    /\ Deallocating
    /\ LET z   == findZone(chunk)
           idx == zoneIdx(zones[z].chunkSize)
       IN  /\ z # nullptr
           /\ ~isEmptied(z)
           /\ zones' = givenBack(z)
           /\ freeChunks' = [freeChunks EXCEPT ![idx] = @ + 1]
    /\ DeallocateReturns
    /\ UNCHANGED <<pageSize, zoneLists, held>>

\* The chunk is the last of its zone.
EmptiesZone ==
    /\ Deallocating
    /\ findZone(chunk) # nullptr
    /\ isEmptied(findZone(chunk))

\* removeZone and clearZone, which releases the page; then deallocateChunk
\* calls itself for the descriptor of the zone that is gone.
RemoveZone ==
    /\ EmptiesZone
    /\ LET z    == findZone(chunk)
           idx  == zoneIdx(zones[z].chunkSize)
           zone == givenBack(z)[z]
       IN  /\ zones' = without(zones, z)
           /\ zoneLists' = [zoneLists EXCEPT ![idx] = RemoveFirst(@, z)]
           /\ freeChunks' = [freeChunks EXCEPT ![idx] = @ + 1 - zone.freeChunksCount]
           /\ chunk' = z
    /\ UNCHANGED <<pageSize, phase, frames, argument, held, reply, before>>

\* No zone has the chunk.  Then release asks for the page of its argument.
NotInZones ==
    /\ Deallocating
    /\ findZone(chunk) = nullptr
    /\ DeallocateReturns
    /\ UNCHANGED <<pageSize, zoneVars, held>>

-----------------------------------------------------------------------------
(* getStats                                                                *)

usedZonesCount == MapThenSumSet(LAMBDA idx : Len(zoneLists[idx]), ZoneIdx)
usedMemorySize == usedZonesCount * pageSize
\* Mutant: the initial zone has a descriptor in a zone as well.
reservedMemorySize_All == usedZonesCount * zoneDescChunkSize

reservedMemorySize ==
    IF usedZonesCount > 0 THEN (usedZonesCount - 1) * zoneDescChunkSize ELSE 0
freeMemorySize ==
    MapThenSumSet(LAMBDA idx : IF zoneLists[idx] = <<>> THEN 0
                               ELSE zones[Head(zoneLists[idx])].chunkSize
                                        * freeChunks[idx],
                  ZoneIdx)
allocatedMemorySize == usedMemorySize - reservedMemorySize - freeMemorySize

-----------------------------------------------------------------------------
(* Properties.                                                             *)

Deallocated == IF Deallocating THEN {chunk} ELSE {}
Descriptors == DOMAIN zones \ {initialZone}
zoneChunks(z) == chunks(pageAddr(zones[z].page), pageSize, zones[z].chunkSize)
InZones == UNION {zoneChunks(z) : z \in DOMAIN zones}

ZoneType ==
    [page : Nat, chunkSize : Nat \ {0}, chunksCount : Nat \ {0},
     freeChunksCount : Nat, freeChunks : Seq(Nat)]

\* Each chunk of each zone is free, a client's, a zone's descriptor or just
\* being given back, and only one of these; what a client holds has the
\* chunk size its request was rounded to.  No descriptor lies outside.
ChunksOwned ==
    /\ Descriptors \subseteq InZones
    /\ \A z \in DOMAIN zones :
          LET free == Range(zones[z].freeChunks)
          IN  /\ IsInjective(zones[z].freeChunks)
              /\ free \subseteq zoneChunks(z)
              /\ \A c \in zoneChunks(z) :
                    /\ Cardinality({S \in {<<1, free>>, <<2, Descriptors>>,
                                            <<3, DOMAIN held>>, <<4, Deallocated>>} :
                                       c \in S[2]}) = 1
                    /\ c \in DOMAIN held =>
                          chunkSize(held[c]) = zones[z].chunkSize

\* A zone is in the one list of its chunk size, its counter is the length of
\* its list, and the counter of a list is the number of chunks that are free
\* in the zones of that list.
CountersAgree ==
    /\ \A z \in DOMAIN zones :
          zones[z].freeChunksCount = Len(zones[z].freeChunks)
    /\ \A idx \in ZoneIdx :
          /\ IsInjective(zoneLists[idx])
          /\ Range(zoneLists[idx]) =
                {z \in DOMAIN zones : zoneIdx(zones[z].chunkSize) = idx}
          /\ freeChunks[idx] =
                Cardinality(UNION {Range(zones[z].freeChunks) :
                                      z \in Range(zoneLists[idx])})

\* There is always a chunk for the descriptor of the next zone: the asserts
\* of allocateZone hold, and it never needs a zone to allocate one.
DescriptorLeft ==
    /\ Idle /\ Initialized => freeChunks[zoneDescIdx] >= 1
    /\ phase = "allocate" /\ ~needsDescZone => descZone # nullptr

\* A zone goes with the last chunk in use: when no call runs, only the
\* initial zone may be without one.  So a client that has released all it
\* held leaves nothing but the initial zone behind.
NoEmptyZone ==
    Idle => \A z \in Descriptors :
                zones[z].freeChunksCount < zones[z].chunksCount

\* getStats derives allocatedMemorySize by subtraction from the counters of
\* zones and lists; it is what the clients hold in zones.
AllocatedMemoryExact ==
    Idle => allocatedMemorySize =
                MapThenSumSet(LAMBDA b : chunkSize(held[b]),
                              DOMAIN held \cap InZones)

\* "Allocates the memory chunk of at least given size", or returns nullptr
\* (ZoneAllocator.hpp:79-82).
AllocateReturns == reply.op # "throws"
===============================================================================
