----------------------------- MODULE MCAllocator -----------------------------
(***************************************************************************)
(* Instances of Allocator for TLC, with descriptors of the size they have  *)
(* on a 64-bit target.                                                     *)
(***************************************************************************)
EXTENDS Allocator

MCRegion(start, length) == [address |-> start, size |-> length]

\* From an unaligned start, two pages of descriptors and four more of 128
\* bytes, or one and one of 256.
MCOneRegion == boundaries(100, 930)
\* Two regions of two pages; the descriptors take a page of the first.
MCTwoRegions == <<MCRegion(128, 256), MCRegion(512, 256)>>
\* A single page, all of it taken by its own descriptor.
MCOnlyDescriptors == boundaries(512, 640)
MCNoRegion == boundaries(512, 512)

MCSeparated == {MCOneRegion, MCTwoRegions, MCOnlyDescriptors, MCNoRegion}
MCSeparatedPools ==
    [size \in PageSizes |->
        IF size = 128 THEN {{3..6}, {{2}, {4, 5}}, {{1, 2}, {5}}, {}}
                       ELSE {{{2}}, {}}]

\* The descriptors fill the first of two regions that touch; the initial zone
\* is in a third one.
MCTouching == {<<MCRegion(128, 256), MCRegion(384, 256), MCRegion(1024, 128)>>}
MCTouchingPools == [size \in PageSizes |-> {{{3, 4}, {8}}}]
=============================================================================
