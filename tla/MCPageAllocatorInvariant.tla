----------------------- MODULE MCPageAllocatorInvariant -----------------------
(***************************************************************************)
(* The instances whose groups fit the size field of a descriptor.          *)
(***************************************************************************)
EXTENDS MCPageAllocator, PageAllocatorInvariant
=============================================================================
