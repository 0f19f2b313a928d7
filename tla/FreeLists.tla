------------------------------ MODULE FreeLists ------------------------------
(***************************************************************************)
(* PageAllocator::addGroup and removeGroup: the free lists, the counter of *)
(* free pages and the 'used' flags, changed together.  m is the record     *)
(*                                                                         *)
(*   groupSize       page -> size written in its descriptor                *)
(*   used            page -> 'used' flag of its descriptor                 *)
(*   lists           list index -> groups, first to last                   *)
(*   freePagesCount  m_freePagesCount                                      *)
(*                                                                         *)
(* A list is the sequence of groups its next pointers visit; module        *)
(* ListNode shows that the pointers implement this sequence.               *)
(***************************************************************************)
EXTENDS PageGroup, SequencesExt

ListIdx == 0..(MaxGroupIdx - 1)

NoPages == [p \in 1..0 |-> 0]

\* The state PageAllocator::clear leaves.
EmptyLists == [groupSize      |-> NoPages,
               used           |-> NoPages,
               lists          |-> [i \in ListIdx |-> <<>>],
               freePagesCount |-> 0]

\* m with other group sizes.
withSizes(m, groupSize) ==
    [groupSize |-> groupSize, used |-> m.used, lists |-> m.lists,
     freePagesCount |-> m.freePagesCount]

\* m with other 'used' flags.
withUsed(m, used) ==
    [groupSize |-> m.groupSize, used |-> used, lists |-> m.lists,
     freePagesCount |-> m.freePagesCount]

FreeGroups(m) == UNION {Range(m.lists[i]) : i \in ListIdx}

\* Page::setUsed for every page of a group.
setUsed(used, pages, value) ==
    [p \in DOMAIN used |-> IF p \in pages THEN value ELSE used[p]]

position(list, group) == CHOOSE k \in DOMAIN list : list[k] = group

addGroup(m, group) ==
    LET idx == groupIdx(m.groupSize[group])
    IN  [groupSize      |-> m.groupSize,
         used           |-> setUsed(m.used, Group(m.groupSize, group), FALSE),
         lists          |-> [m.lists EXCEPT ![idx] = <<group>> \o @],
         freePagesCount |-> m.freePagesCount + m.groupSize[group]]

\* Mutant: the pages stay marked free.
removeGroup_Unmarked(m, group) ==
    LET idx == groupIdx(m.groupSize[group])
    IN  [groupSize      |-> m.groupSize,
         used           |-> m.used,
         lists          |-> [m.lists EXCEPT
                                ![idx] = RemoveAt(@, position(@, group))],
         freePagesCount |-> m.freePagesCount - m.groupSize[group]]

removeGroup(m, group) ==
    LET idx == groupIdx(m.groupSize[group])
    IN  [groupSize      |-> m.groupSize,
         used           |-> setUsed(m.used, Group(m.groupSize, group), TRUE),
         lists          |-> [m.lists EXCEPT
                                ![idx] = RemoveAt(@, position(@, group))],
         freePagesCount |-> m.freePagesCount - m.groupSize[group]]

-----------------------------------------------------------------------------
(* What holds of m between two calls, n being the number of descriptors    *)
(* written so far and out the groups that are in no free list (handed to   *)
(* a client, being released, or holding the descriptors).                  *)

Heads(m, out) == FreeGroups(m) \cup out

ListsTyped(m, n) ==
    /\ m.groupSize \in [0..(n-1) -> 0..(SizeLimit - 1)]
    /\ m.used \in [0..(n-1) -> BOOLEAN]
    /\ m.lists \in [ListIdx -> Seq(0..(n-1))]
    /\ m.freePagesCount \in Nat

\* The two copies of a group's size agree and the group fits the table.
GroupOk(m, n, g) ==
    /\ m.groupSize[g] > 0
    /\ g + m.groupSize[g] <= n
    /\ m.groupSize[g + m.groupSize[g] - 1] = m.groupSize[g]

HeadersOk(m, out, n) == \A g \in Heads(m, out) : GroupOk(m, n, g)

\* No page is in two groups, and none is lost.
GroupsDisjoint(m, out) ==
    \A g, h \in Heads(m, out) : g < h => g + m.groupSize[g] <= h

GroupsCover(m, out, n) ==
    \A p \in 0..(n-1) : \E g \in Heads(m, out) : p \in Group(m.groupSize, g)

\* A free group is in the list its present size selects, and only once.
ListsMatchSizes(m, out) ==
    \A i \in ListIdx :
        /\ IsInjective(m.lists[i])
        /\ \A g \in Range(m.lists[i]) :
              groupIdx(m.groupSize[g]) = i /\ g \notin out

UsedMatches(m, out, n) ==
    \A p \in 0..(n-1) :
        m.used[p] <=> \E g \in out : p \in Group(m.groupSize, g)

CountMatches(m, n) ==
    m.freePagesCount = Cardinality({p \in 0..(n-1) : ~m.used[p]})

\* Only the two ends of a group carry a size.
InteriorClear(m, out, n) ==
    \A p \in 0..(n-1) :
        m.groupSize[p] # 0 => \E g \in Heads(m, out) :
                                  p = g \/ p = g + m.groupSize[g] - 1

ListsInv(m, out, n) ==
    /\ ListsTyped(m, n)
    /\ n \in Nat
    /\ out \subseteq 0..(n-1)
    /\ HeadersOk(m, out, n)
    /\ GroupsDisjoint(m, out)
    /\ GroupsCover(m, out, n)
    /\ ListsMatchSizes(m, out)
    /\ UsedMatches(m, out, n)
    /\ CountMatches(m, n)
    /\ InteriorClear(m, out, n)
=============================================================================
