--------------------------- MODULE MCPageAllocator ---------------------------
(***************************************************************************)
(* Instances of PageAllocator for TLC.  The page size is the smallest the  *)
(* code accepts; a descriptor has the size it has on a 64-bit target.      *)
(***************************************************************************)
EXTENDS PageAllocator

MCRegion(start, length) == [address |-> start, size |-> length]

\* Five pages from an unaligned start, then four that store the descriptors.
MCTwoRegions == <<MCRegion(100, 700), MCRegion(1024, 512)>>
\* A region too small to keep, then two regions of two and four pages; the
\* second starts and ends inside a page.
MCThreeRegions ==
    <<MCRegion(2000, 100), MCRegion(256, 256), MCRegion(1000, 600)>>
\* A single page, all of it taken by its own descriptor.
MCOnlyDescriptors == <<MCRegion(512, 128)>>
\* More entries than there is room for; the first are already scanned.
MCTooMany == <<MCRegion(128, 128), MCRegion(512, 128), MCRegion(1024, 128),
               MCRegion(2048, 128)>>
\* A region as large as a page that contains no aligned page.
MCNoPage == <<MCRegion(130, 130)>>
MCNoRegion == <<>>

MCSeparated == {MCTwoRegions, MCThreeRegions, MCOnlyDescriptors, MCTooMany,
                MCNoPage, MCNoRegion}

\* Regions that touch: in the order of their addresses and against it.
MCAdjacent == {<<MCRegion(128, 384), MCRegion(512, 512)>>,
               <<MCRegion(640, 512), MCRegion(256, 384)>>}

\* The first region is too small for the descriptors of all.
MCSmallFirst == {<<MCRegion(512, 128), MCRegion(640, 512)>>}

\* Two bits of group size too few for the second region.
MCWide == {<<MCRegion(128, 640), MCRegion(1024, 1152)>>}
=============================================================================
