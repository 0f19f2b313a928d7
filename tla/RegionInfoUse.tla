---------------------------- MODULE RegionInfoUse ----------------------------
(***************************************************************************)
(* One RegionInfo object, initialised again and again from any region and  *)
(* page size, or cleared, as the entries of m_regionsInfo are when the     *)
(* allocator is initialised anew.                                          *)
(***************************************************************************)
EXTENDS RegionInfo, FiniteSets

CONSTANTS Addresses, Sizes, PageSizes

ASSUME UseAssumption ==
    Addresses \subseteq Nat /\ Sizes \subseteq Nat /\ PageSizes \subseteq Nat \ {0}

VARIABLES info,      \* the RegionInfo object
          region,    \* the last region it was initialised from
          pageSize,  \* and the page size
          outcome    \* what the last call did

vars == <<info, region, pageSize, outcome>>

NoRegion == [address |-> 0, size |-> 0]

Init ==
    /\ info = clearedInfo
    /\ region = NoRegion
    /\ pageSize = 0
    /\ outcome = "cleared"

clearRegionInfo ==
    /\ info' = clearedInfo
    /\ region' = NoRegion
    /\ pageSize' = 0
    /\ outcome' = "cleared"

\* A failed assert ends the program: nothing is called after it.  The one on
\* the aligned start comes first.
Aborted == outcome \in {"no start", "no end"}

InitRegionInfo(r, size) ==
    /\ ~Aborted
    /\ region' = r
    /\ pageSize' = size
    /\ IF assertsHold(r, size)
       THEN /\ info' = initRegionInfo(r, size)
            /\ outcome' = IF regionKept(r, size) THEN "kept" ELSE "dropped"
       ELSE /\ outcome' = IF alignedStartExists(r, size)
                          THEN "no end"
                          ELSE "no start"
            /\ UNCHANGED info

Next ==
    \/ ~Aborted /\ clearRegionInfo
    \/ \E r \in Regions(Addresses, Sizes), size \in PageSizes :
          InitRegionInfo(r, size)

Spec == Init /\ [][Next]_vars

-----------------------------------------------------------------------------
\* The pages, numbered from address 0, that lie in the region as a whole.
WholePages ==
    {k \in 0..(AddrSpace \div pageSize) :
        /\ region.address <= k * pageSize
        /\ (k + 1) * pageSize <= region.address + region.size}

\* initRegionInfo keeps exactly the whole pages of the region, and drops it
\* only when there are none (alignedStart, alignedEnd and the page count).
KeepsWholePages ==
    outcome \in {"kept", "dropped"} =>
        /\ outcome = "dropped" <=> WholePages = {}
        /\ info.pageCount = Cardinality(WholePages)
        /\ info.alignedSize = info.pageCount * pageSize
        /\ outcome = "kept" =>
              WholePages = {k \in 0..(AddrSpace \div pageSize) :
                               /\ info.alignedStart <= k * pageSize
                               /\ (k + 1) * pageSize <= info.alignedEnd}

\* The asserts on the two optional results never fail
\* (RegionInfo.cpp:66 and RegionInfo.cpp:70).
AssertsHold == ~Aborted
=============================================================================
