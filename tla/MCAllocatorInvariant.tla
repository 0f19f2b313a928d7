------------------------- MODULE MCAllocatorInvariant -------------------------
(***************************************************************************)
(* The instance of MCAllocator with regions that do not touch, for which   *)
(* the inductive invariant holds.                                          *)
(***************************************************************************)
EXTENDS AllocatorInvariant, MCAllocator
===============================================================================
