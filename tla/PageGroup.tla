------------------------------ MODULE PageGroup ------------------------------
(***************************************************************************)
(* Groups of neighbouring pages, as lib/group.cpp keeps them in the page   *)
(* descriptors of lib/Page.hpp.  A page is its index in the descriptor     *)
(* table (nextSibling is +1, prevSibling is -1).  A group is named by its  *)
(* first page; its size is written in the descriptors of its first and of  *)
(* its last page and nowhere else.                                         *)
(*                                                                         *)
(* groupSize is the function page -> m_flags.bits.groupSize.  The          *)
(* operators that write it return the new function.                        *)
(***************************************************************************)
EXTENDS Integers, FiniteSets

CONSTANTS
    MaxGroupIdx,    \* m_cMaxGroupIdx: how many free lists there are (20)
    GroupSizeBits   \* width of PageFlags::groupSize (21)

\* Every size a descriptor can hold has a free list of its own.
ASSUME ListForEverySize ==
    MaxGroupIdx \in Nat \ {0} /\ GroupSizeBits = MaxGroupIdx + 1

\* Arithmetic the provers have no theory for.
ASSUME PowersOfTwo ==
    2^1 = 2 /\ \A k \in 1..GroupSizeBits : 2^k \in Nat \ {0, 1}

SizeLimit == 2^GroupSizeBits

Group(groupSize, group) == group..(group + groupSize[group] - 1)

\* std::floor(std::log2(pageCount)) - 1, and 0 for a single page.  For a
\* count no descriptor can hold the value is past the last list, as in the
\* code.
groupIdx(pageCount) ==
    IF pageCount < 2
    THEN 0
    ELSE Cardinality({k \in 1..GroupSizeBits : 2^k <= pageCount}) - 1

-----------------------------------------------------------------------------
\* A bit-field keeps the low bits of what is stored in it.
setGroupSize(groupSize, page, size) ==
    [groupSize EXCEPT ![page] = size % SizeLimit]

\* Mutant: the copy of the size in the last descriptor is not written.
initGroup_FirstOnly(groupSize, group, size) ==
    setGroupSize(groupSize, group, size)

initGroup(groupSize, group, size) ==
    setGroupSize(setGroupSize(groupSize, group, size), group + size - 1, size)

\* Mutant: only the first descriptor is cleared.
clearGroup_FirstOnly(groupSize, group) == setGroupSize(groupSize, group, 0)

clearGroup(groupSize, group) ==
    LET last == group + groupSize[group] - 1
    IN  setGroupSize(setGroupSize(groupSize, group, 0), last, 0)

\* The caller asserts 0 < size <= groupSize[group].  The second group, when
\* there is one, starts at group + size.
splitGroup(groupSize, group, size) ==
    IF size = groupSize[group]
    THEN groupSize
    ELSE initGroup(initGroup(clearGroup(groupSize, group), group, size),
                   group + size, groupSize[group] - size)

joinGroup(groupSize, first, second) ==
    initGroup(clearGroup(clearGroup(groupSize, first), second),
              first, groupSize[first] + groupSize[second])
=============================================================================
