---------------------------- MODULE NodeSequences ----------------------------
(***************************************************************************)
(* What the lists of lib/ListNode.hpp promise: each list is a sequence of  *)
(* nodes, a node is in at most one list and in it once; a node is added at *)
(* the front and removed from wherever it is.                              *)
(***************************************************************************)
EXTENDS SequencesExt, Integers

CONSTANTS Node, List

VARIABLE lists  \* list -> its nodes, first to last

Init == lists = [l \in List |-> <<>>]

AddToList(n, l) ==
    /\ \A m \in List : n \notin Range(lists[m])
    /\ lists' = [lists EXCEPT ![l] = <<n>> \o @]

RemoveFromList(n, l) ==
    \E k \in DOMAIN lists[l] :
        /\ lists[l][k] = n
        /\ lists' = [lists EXCEPT ![l] = RemoveAt(@, k)]

Next == \E n \in Node, l \in List : AddToList(n, l) \/ RemoveFromList(n, l)

Spec == Init /\ [][Next]_lists
=============================================================================
