------------------------ MODULE ZonesOverPoolInvariant ------------------------
(***************************************************************************)
(* The inductive invariant of ZonesOverPool.  What it says of the zones is *)
(* stated of values (Z the zones, L the lists, F the counters, ps the page *)
(* size), because the actions take and give chunks in several steps.       *)
(***************************************************************************)
EXTENDS ZonesOverPool

\* Arithmetic the provers have no theory for.
ASSUME PowersOfTwo ==
    /\ AddrBits \in Nat /\ AddrBits > 4
    /\ \A k \in 0..AddrBits : 2^k \in Nat \ {0} /\ \A j \in 0..(k-1) : 2^j < 2^k

\* A chunk has a list from 16 bytes on (toIdx of ZoneAllocator.cpp), sizes
\* up to a page are rounded without overflow, and a page holds at least two
\* descriptors: one for its own zone's successor, one to spare.
ASSUME ChunksFit ==
    /\ MinimalAllocSize >= 2^4
    /\ MinimalAllocSize <= 2^(AddrBits - 1)
    /\ ZoneDescSize <= 2^(AddrBits - 1)
    /\ zoneDescIdx \in ZoneIdx
    /\ \A size \in PageSizes :
          2 * zoneDescChunkSize <= size /\ size <= 2^(AddrBits - 1)

-----------------------------------------------------------------------------
(* Zones, lists and counters.                                              *)

ZoneName == Nat \cup {initialZone}

ChunkSizes ==
    {2^k : k \in {l \in 0..(AddrBits - 1) : 2^l >= MinimalAllocSize}}

\* A page size is a power of two: chunks of a smaller one fill the page.
ASSUME ChunksFillPages ==
    \A size \in PageSizes, c \in ChunkSizes : c < size => size = (size \div c) * c

ChunksIn(zone, ps) == chunks(zone.page * ps, ps, zone.chunkSize)
FreeIn(zone) == Range(zone.freeChunks)

ZoneOK(zone, ps) ==
    /\ zone \in ZoneType
    /\ zone.chunkSize \in ChunkSizes
    /\ zone.chunkSize < ps
    /\ zoneIdx(zone.chunkSize) \in ZoneIdx
    /\ zone.chunksCount = ps \div zone.chunkSize
    /\ zone.freeChunksCount = Len(zone.freeChunks)
    /\ IsInjective(zone.freeChunks)
    /\ FreeIn(zone) \subseteq ChunksIn(zone, ps)

ZonesOK(Z, ps) ==
    /\ DOMAIN Z \subseteq ZoneName /\ IsFiniteSet(DOMAIN Z)
    /\ \A z \in DOMAIN Z : ZoneOK(Z[z], ps)
    /\ \A y, z \in DOMAIN Z : y # z => Z[y].page # Z[z].page

ZonesOf(Z, idx) == {z \in DOMAIN Z : zoneIdx(Z[z].chunkSize) = idx}

ListsOK(Z, L) ==
    /\ L \in [ZoneIdx -> Seq(ZoneName)]
    /\ \A idx \in ZoneIdx :
          IsInjective(L[idx]) /\ Range(L[idx]) = ZonesOf(Z, idx)

FreeOf(Z, idx) == UNION {FreeIn(Z[z]) : z \in ZonesOf(Z, idx)}

CountsOK(Z, F) ==
    F = [idx \in ZoneIdx |-> Cardinality(FreeOf(Z, idx))]

Consistent(Z, L, F, ps) == ZonesOK(Z, ps) /\ ListsOK(Z, L) /\ CountsOK(Z, F)

Full(zone) == zone.freeChunksCount = zone.chunksCount

-----------------------------------------------------------------------------
(* The owners of chunks and pages.                                         *)

InDescZone(c) ==
    \E z \in ZonesOf(zones, zoneDescIdx) : c \in ChunksIn(zones[z], pageSize)

\* What is not free.
Used == Descriptors \cup DOMAIN held \cup Deallocated

OwnersOK ==
    /\ \A d \in Descriptors : InDescZone(d)
    /\ Descriptors \cap DOMAIN held = {}
    /\ Deallocated \cap (Descriptors \cup DOMAIN held) = {}
    /\ \A z \in DOMAIN zones :
          /\ FreeIn(zones[z]) \cap Used = {}
          /\ ChunksIn(zones[z], pageSize) \subseteq FreeIn(zones[z]) \cup Used
          /\ \A c \in ChunksIn(zones[z], pageSize) \cap DOMAIN held :
                /\ chunkSize(held[c]) = zones[z].chunkSize
                /\ held[c] <= zones[z].chunkSize

RunsOK ==
    /\ UNION areas \subseteq Nat \ {0}
    /\ DOMAIN pagesHeld \subseteq UNION areas
    /\ \A p \in DOMAIN pagesHeld :
          /\ pagesHeld[p] \in Nat \ {0}
          /\ Pages!Run(p, pagesHeld[p]) \subseteq UNION areas
    /\ \A p, q \in DOMAIN pagesHeld :
          p # q => Pages!Run(p, pagesHeld[p]) \cap Pages!Run(q, pagesHeld[q]) = {}

\* Nothing is held before init has succeeded.
StartInv ==
    /\ pageSize \in PageSizes \cup {0}
    /\ ~Initialized => DOMAIN zones = {} /\ DOMAIN held = {}
    /\ Initialized => pageSize \in PageSizes
    /\ DOMAIN held \subseteq Nat
    /\ \A b \in DOMAIN held : held[b] \in AllocSizes \ {0}

-----------------------------------------------------------------------------
(* The calls.                                                              *)

\* The inner allocateZone has added its zone of descriptors.
DescZoneAdded == phase = "allocate" /\ frames # <<>> /\ frame.checked

IdleInv ==
    Idle =>
        /\ frames = <<>> /\ chunk = nullptr /\ argument = 0
        /\ Initialized => freeChunks[zoneDescIdx] >= 1

Frame(size, checked) == [chunkSize |-> size, checked |-> checked]

\* The allocateZone of a client, alone or with the one it called.
FramesOK ==
    LET size == chunkSize(argument)
    IN  \/ frames = <<Frame(size, FALSE)>>
        \/ /\ size # zoneDescChunkSize
           /\ \/ frames = <<Frame(size, TRUE)>>
              \/ frames = <<Frame(zoneDescChunkSize, FALSE), Frame(size, TRUE)>>

CallInv ==
    phase \in {"allocate", "undo"} =>
        /\ Initialized
        /\ argument \in AllocSizes \ {0}
        /\ ~isForPages(argument)
        /\ zoneIdx(chunkSize(argument)) \in ZoneIdx
        /\ FramesOK

AllocateInv ==
    phase = "allocate" =>
        /\ chunk = nullptr
        /\ freeChunks[zoneDescIdx] >= IF DescZoneAdded THEN 2 ELSE 1

\* A chunk that is given back is a descriptor's, or the argument of release:
\* a chunk or the first page of a run.
DeallocateInv ==
    Deallocating =>
        /\ Initialized
        /\ chunk \in Nat
        /\ \/ InDescZone(chunk)
           \/ /\ phase = "release"
              /\ chunk = argument
              /\ freeChunks[zoneDescIdx] >= 1
              /\ \/ \E z \in DOMAIN zones : chunk \in ChunksIn(zones[z], pageSize)
                 \/ \E p \in DOMAIN pagesHeld : chunk = pageAddr(p)

ReleaseInv ==
    phase = "release" => frames = <<>> /\ argument \in Nat

\* Only the zone of descriptors that allocateZone has just added is unused.
FullZones ==
    \A z \in Descriptors :
        Full(zones[z]) => /\ DescZoneAdded
                          /\ z = Head(zoneLists[zoneDescIdx])

Inv ==
    /\ Consistent(zones, zoneLists, freeChunks, pageSize)
    /\ StartInv
    /\ OwnersOK
    /\ RunsOK
    /\ PagesOwned
    /\ phase \in {"idle", "allocate", "undo", "release"}
    /\ IdleInv
    /\ CallInv
    /\ AllocateInv
    /\ DeallocateInv
    /\ ReleaseInv
    /\ FullZones

-----------------------------------------------------------------------------
(* Where chunks and runs come from.  Inv does not need it; what a client   *)
(* that holds nothing leaves behind, and the statistics of the library, do.*)

\* No descriptors lie in each other's zones, round in a circle: of any set of
\* zones there is one whose descriptor is in a zone outside the set.
NoCycle ==
    \A S \in SUBSET Descriptors :
        S # {} => \E d \in S : \A z \in S : d \notin ChunksIn(zones[z], pageSize)

\* A client's run has as many pages as its size takes.
RunsMeasured ==
    \A p \in DOMAIN pagesHeld :
        (\A z \in DOMAIN zones : zones[z].page # p) /\ pageAddr(p) \in DOMAIN held
            => pagesHeld[p] = pagesFor(held[pageAddr(p)])

OriginInv == NoCycle /\ RunsMeasured

-----------------------------------------------------------------------------
(* An allocateZone that fails: the way back to the state before it.        *)

zonesBefore == before[1]
listsBefore == before[2]
countersBefore == before[3]

BeforeOK ==
    /\ before = <<zonesBefore, listsBefore, countersBefore>>
    /\ zonesBefore = [z \in DOMAIN zonesBefore |-> zonesBefore[z]]
    /\ Consistent(zonesBefore, listsBefore, countersBefore, pageSize)
    /\ \A z \in DOMAIN zonesBefore \ {initialZone} : ~Full(zonesBefore[z])

\* The zone whose chunk becomes the first new descriptor.
HasDescriptor(y) ==
    /\ y \in ZonesOf(zonesBefore, zoneDescIdx)
    /\ zonesBefore[y].freeChunksCount > 0
    /\ firstChunk(zonesBefore[y]) \in Nat \ DOMAIN zonesBefore

withoutDescriptor(y) == [zonesBefore EXCEPT ![y] = takeChunk(zonesBefore[y])]

\* The descriptor has been taken, and no zone was added.
DescriptorTaken(y) ==
    /\ zones = withoutDescriptor(y)
    /\ zoneLists = listsBefore
    /\ freeChunks = [countersBefore EXCEPT ![zoneDescIdx] =
                        countersBefore[zoneDescIdx] - 1]

\* Then a zone of descriptors, zone, was added: new or with a chunk taken.
DescZoneIs(y, zone) ==
    LET d == firstChunk(zonesBefore[y])
    IN  /\ zones = with(withoutDescriptor(y), d, zone)
        /\ zoneLists = [listsBefore EXCEPT ![zoneDescIdx] =
                           <<d>> \o listsBefore[zoneDescIdx]]
        /\ freeChunks = [countersBefore EXCEPT ![zoneDescIdx] =
                            countersBefore[zoneDescIdx] - 1 + zone.freeChunksCount]

newDescZone(p) == newZone(p, pageSize, zoneDescChunkSize)

\* A second page was needed, as it is for a zone of another size when one
\* descriptor is left.
TwoPages ==
    /\ countersBefore[zoneDescIdx] = 1
    /\ chunkSize(argument) # zoneDescChunkSize

AllocateBefore ==
    phase = "allocate" =>
        IF DescZoneAdded
        THEN /\ TwoPages
             /\ \E y \in DOMAIN zonesBefore : \E p \in UNION areas :
                   HasDescriptor(y) /\ DescZoneIs(y, newDescZone(p))
        ELSE /\ zoneVars = before
             /\ Len(frames) = 2 => TwoPages

UndoBefore ==
    phase = "undo" =>
        \E y \in DOMAIN zonesBefore :
            /\ HasDescriptor(y)
            /\ \/ /\ DescriptorTaken(y)
                  /\ chunk = firstChunk(zonesBefore[y])
                  /\ \/ Pages!FreeRuns(1) = {}
                     \/ TwoPages /\ \E p \in UNION areas : Pages!FreeRuns(1) \subseteq {p}
               \/ /\ TwoPages
                  /\ Pages!FreeRuns(1) = {}
                  /\ \E p \in UNION areas :
                        /\ DescZoneIs(y, takeChunk(newDescZone(p)))
                        /\ chunk = firstChunk(newDescZone(p))

FailureInv ==
    /\ phase \in {"allocate", "undo"} => BeforeOK
    /\ AllocateBefore
    /\ UndoBefore
    /\ phase # "idle" => reply = NoReply
    /\ RefusedOnlyWithoutPages
=============================================================================
