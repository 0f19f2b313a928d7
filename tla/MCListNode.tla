------------------------------ MODULE MCListNode ------------------------------
(***************************************************************************)
(* Four nodes and two lists: a node can be first, last, in the middle or   *)
(* alone, and have a neighbour list it must not disturb.                   *)
(***************************************************************************)
EXTENDS ListNode

CONSTANTS n1, n2, n3, n4, l1, l2

MCNode == {n1, n2, n3, n4}
MCList == {l1, l2}
=============================================================================
