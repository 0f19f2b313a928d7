----------------------------- MODULE MCRegionInfo -----------------------------
(***************************************************************************)
(* Every region of an address space of 40 bytes, in pages of 4 and 8.      *)
(***************************************************************************)
EXTENDS RegionInfoUse

MCAddresses == 0..(AddrSpace - 1)
\* Addresses at which no region of these sizes reaches the last address.
MCLowAddresses == 0..22
MCSizes == 1..17
=============================================================================
