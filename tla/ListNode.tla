------------------------------- MODULE ListNode -------------------------------
(***************************************************************************)
(* The intrusive doubly-linked lists of lib/ListNode.hpp, pointer by       *)
(* pointer.  The nodes are page or zone descriptors; a list is a variable  *)
(* that points to its first node.                                          *)
(***************************************************************************)
EXTENDS Integers, SequencesExt, FiniteSets

CONSTANTS
    Node,     \* the descriptors
    List,     \* the variables that point to a first node
    nullptr

ASSUME NullIsNoNode == nullptr \notin Node /\ nullptr \notin List
ASSUME FiniteNodes == IsFiniteSet(Node)

VARIABLES
    next,     \* m_next
    prev,     \* m_prev
    head,     \* *list
    owner     \* ghost: the list a node was added to and not removed from

vars == <<next, prev, head, owner>>

Pointer == Node \cup {nullptr}

Init ==
    /\ next = [n \in Node |-> nullptr]
    /\ prev = [n \in Node |-> nullptr]
    /\ head = [l \in List |-> nullptr]
    /\ owner = [n \in Node |-> nullptr]

\* Mutant: the old first node does not learn of the new one.
AddToList_OneWay(n, l) ==
    /\ owner[n] = nullptr
    /\ next[n] = nullptr
    /\ prev[n] = nullptr
    /\ next' = [next EXCEPT ![n] = head[l]]
    /\ head' = [head EXCEPT ![l] = n]
    /\ owner' = [owner EXCEPT ![n] = l]
    /\ UNCHANGED prev

\* The asserts reject a node that has a neighbour.  They do not notice a node
\* that is alone in a list: that it is in none is the caller's part.
AddToList(n, l) ==
    /\ owner[n] = nullptr
    /\ next[n] = nullptr
    /\ prev[n] = nullptr
    /\ IF head[l] # nullptr
       THEN /\ next' = [next EXCEPT ![n] = head[l]]
            /\ prev' = [prev EXCEPT ![head[l]] = n]
       ELSE UNCHANGED <<next, prev>>
    /\ head' = [head EXCEPT ![l] = n]
    /\ owner' = [owner EXCEPT ![n] = l]

\* Mutant: the null pointer is written through.
relink_Unguarded(map, at, target) ==
    [p \in DOMAIN map \cup {at} |-> IF p = at THEN target ELSE map[p]]

\* One neighbour, if there is one, learns of the removal.
relink(map, at, target) ==
    IF at = nullptr THEN map ELSE [map EXCEPT ![at] = target]

\* Mutant: with its first node removed, the list is taken for empty.
RemoveFromList_DropRest(n, l) ==
    /\ owner[n] = l
    /\ n = head[l] \/ next[n] # nullptr \/ prev[n] # nullptr
    /\ prev' = [relink(prev, next[n], prev[n]) EXCEPT ![n] = nullptr]
    /\ next' = [relink(next, prev[n], next[n]) EXCEPT ![n] = nullptr]
    /\ head' = [head EXCEPT ![l] = IF @ = n THEN nullptr ELSE @]
    /\ owner' = [owner EXCEPT ![n] = nullptr]

\* The caller names the list the node is in; the assert only sees that the
\* node is in some list.
RemoveFromList(n, l) ==
    /\ owner[n] = l
    /\ n = head[l] \/ next[n] # nullptr \/ prev[n] # nullptr
    /\ prev' = [relink(prev, next[n], prev[n]) EXCEPT ![n] = nullptr]
    /\ next' = [relink(next, prev[n], next[n]) EXCEPT ![n] = nullptr]
    /\ head' = [head EXCEPT ![l] = IF @ = n THEN next[n] ELSE @]
    /\ owner' = [owner EXCEPT ![n] = nullptr]

Next == \E n \in Node, l \in List : AddToList(n, l) \/ RemoveFromList(n, l)

Spec == Init /\ [][Next]_vars

-----------------------------------------------------------------------------
\* Pointers are null or point to nodes.
TypeOK ==
    /\ next \in [Node -> Pointer]
    /\ prev \in [Node -> Pointer]
    /\ head \in [List -> Pointer]
    /\ owner \in [Node -> List \cup {nullptr}]

\* The links of a node and of its neighbours agree, a node without a
\* predecessor is the first of its list, and no link leads from one list to
\* another, or to a node that is in none (addToList, removeFromList).
LinksAgree ==
    /\ \A n \in Node : next[n] # nullptr =>
          prev[next[n]] = n /\ owner[next[n]] = owner[n]
    /\ \A n \in Node : prev[n] # nullptr =>
          next[prev[n]] = n /\ owner[prev[n]] = owner[n]
    /\ \A l \in List : head[l] # nullptr =>
          prev[head[l]] = nullptr /\ owner[head[l]] = l
    /\ \A n \in Node : owner[n] # nullptr /\ prev[n] = nullptr =>
          head[owner[n]] = n
    /\ \A n \in Node : owner[n] = nullptr =>
          next[n] = nullptr /\ prev[n] = nullptr

\* What is reached from first along the next pointers, up to the null pointer.
IsChain(s, first) ==
    /\ first = IF s = <<>> THEN nullptr ELSE s[1]
    /\ \A k \in DOMAIN s : next[s[k]] = IF k = Len(s) THEN nullptr ELSE s[k + 1]

chain(first) == CHOOSE s \in SeqOf(Node, Cardinality(Node)) : IsChain(s, first)
lists == [l \in List |-> chain(head[l])]

Sequences == INSTANCE NodeSequences

\* Seen along the next pointers, the lists are the sequences that the other
\* modules work with: nothing is lost, doubled or reordered by an insertion
\* at the front or a removal anywhere.
ImplementsSequences == Sequences!Spec
=============================================================================
