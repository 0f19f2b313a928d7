---------------------------- MODULE MCPageRegions ----------------------------
(***************************************************************************)
(* The instances of PageAllocator with regions that do not touch.          *)
(***************************************************************************)
EXTENDS MCPageAllocator, PageRegionsInvariant
=============================================================================
