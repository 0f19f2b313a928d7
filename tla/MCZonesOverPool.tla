--------------------------- MODULE MCZonesOverPool ---------------------------
(***************************************************************************)
(* Instances of ZonesOverPool for TLC.  A zone descriptor has the size it  *)
(* has on a 64-bit target: two fit a page of 128 bytes, four one of 256.   *)
(***************************************************************************)
EXTENDS ZonesOverPoolInvariant

\* The pages of so many bytes, in a row.
MCMemory(bytes) == [size \in PageSizes |-> {{1..(bytes \div size)}}]
MC384Bytes == MCMemory(384)
MC16384Bytes == MCMemory(16384)
=============================================================================
