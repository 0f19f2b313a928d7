---------------------------- MODULE ListNodeProofs ----------------------------
(***************************************************************************)
(* The links of lib/ListNode.hpp agree for any number of nodes and lists,  *)
(* and what is reached along them are the sequences the code means.        *)
(***************************************************************************)
EXTENDS ListNode, BasicFacts

LinkInv == TypeOK /\ LinksAgree

LEMMA LinkInit == Init => LinkInv
  BY NullIsNoNode DEF Init, LinkInv, TypeOK, LinksAgree, Pointer

\* Insertion at the front keeps the links in agreement.
LEMMA LinkAdd ==
    ASSUME LinkInv, NEW n \in Node, NEW l \in List, AddToList(n, l)
    PROVE  LinkInv'
<1> USE NullIsNoNode DEF LinkInv, Pointer
<1>1. TypeOK'
  BY DEF AddToList, TypeOK
<1>2. CASE head[l] = nullptr
  BY <1>1, <1>2 DEF AddToList, TypeOK, LinksAgree
<1>3. CASE head[l] # nullptr
  <2>1. PICK h \in Node : h = head[l] /\ h # n /\ owner[h] = l /\ prev[h] = nullptr
    BY <1>3 DEF AddToList, TypeOK, LinksAgree
  <2>2. /\ next' = [next EXCEPT ![n] = h]
        /\ prev' = [prev EXCEPT ![h] = n]
        /\ head' = [head EXCEPT ![l] = n]
        /\ owner' = [owner EXCEPT ![n] = l]
        /\ owner[n] = nullptr /\ next[n] = nullptr /\ prev[n] = nullptr
    BY <1>3, <2>1 DEF AddToList
  <2>3. LinksAgree'
    BY <1>1, <2>1, <2>2 DEF TypeOK, LinksAgree
  <2> QED BY <1>1, <2>3
<1> QED BY <1>2, <1>3

\* So does the removal of a node, wherever it is in its list.
LEMMA LinkRemove ==
    ASSUME LinkInv, NEW n \in Node, NEW l \in List, RemoveFromList(n, l)
    PROVE  LinkInv'
<1> USE NullIsNoNode DEF LinkInv, Pointer
<1>1. TypeOK'
  BY DEF RemoveFromList, TypeOK, relink
<1>2. /\ \A m \in Node : prev'[m] = IF m = n THEN nullptr
                                    ELSE IF m = next[n] THEN prev[n] ELSE prev[m]
      /\ \A m \in Node : next'[m] = IF m = n THEN nullptr
                                    ELSE IF m = prev[n] THEN next[n] ELSE next[m]
      /\ \A m \in Node : owner'[m] = IF m = n THEN nullptr ELSE owner[m]
      /\ \A k \in List : head'[k] = IF k = l /\ head[l] = n THEN next[n]
                                                            ELSE head[k]
      /\ owner[n] = l
  BY DEF RemoveFromList, TypeOK, relink
<1>3. LinksAgree'
  BY <1>1, <1>2 DEF TypeOK, LinksAgree
<1> QED BY <1>1, <1>3

\* Along every history of insertions and removals the pointers are typed and
\* the links of neighbours agree (addToList, removeFromList).
THEOREM LinksCorrect == Spec => [](TypeOK /\ LinksAgree)
<1>1. LinkInv /\ [Next]_vars => LinkInv'
  <2> SUFFICES ASSUME LinkInv, [Next]_vars PROVE LinkInv'
    OBVIOUS
  <2>1. CASE UNCHANGED vars
    BY <2>1 DEF vars, LinkInv, TypeOK, LinksAgree, Pointer
  <2>2. CASE Next
    BY <2>2, LinkAdd, LinkRemove DEF Next
  <2> QED BY <2>1, <2>2
<1> QED BY LinkInit, <1>1, PTL DEF Spec, LinkInv

\* No sequence of addToList and removeFromList makes a link or a head point to
\* anything but a node or nullptr.
THEOREM TypeCorrect == Spec => []TypeOK
  BY LinksCorrect, PTL

-----------------------------------------------------------------------------
(* The lists as sequences.                                                 *)

\* s are the nodes of l, in the order of the links.
Spells(s, l) ==
    /\ IsChain(s, head[l])
    /\ IsInjective(s)
    /\ Range(s) = {n \in Node : owner[n] = l}

ChainInv == \A l \in List : \E s \in Seq(Node) : Spells(s, l)

ListsSpelled == \A l \in List : \A s \in Seq(Node) : Spells(s, l) => lists[l] = s

\* The links and the first node leave no choice.
LEMMA OneChain ==
    ASSUME NEW s \in Seq(Node), NEW t \in Seq(Node), NEW first,
           IsChain(s, first), IsChain(t, first)
    PROVE  s = t
<1> USE NullIsNoNode
<1>0. Len(s) \in Nat /\ Len(t) \in Nat
  OBVIOUS
<1>1. /\ DOMAIN s = 1..Len(s)
      /\ DOMAIN t = 1..Len(t)
      /\ \A k \in DOMAIN s : s[k] \in Node
      /\ \A k \in DOMAIN t : t[k] \in Node
  OBVIOUS
<1>2. \A k \in Nat \ {0} : k <= Len(s) => k <= Len(t) /\ t[k] = s[k]
  <2>1. DEFINE Bad == {k \in Nat : k # 0 /\ k <= Len(s) /\ ~(k <= Len(t) /\ t[k] = s[k])}
  <2>2. SUFFICES ASSUME Bad # {} PROVE FALSE
    OBVIOUS
  <2>3. PICK k \in Bad : \A j \in Bad : k <= j
    BY <2>2, LeastNatural
  <2>4. CASE k = 1
    BY <1>1, <2>3, <2>4 DEF IsChain
  <2>5. CASE k # 1
    <3>1. PICK j \in Nat \ {0} : k = j + 1
      <4>1. k - 1 \in Nat \ {0} /\ k = (k - 1) + 1
        BY <2>5
      <4> QED BY <4>1
    <3>2. k \in Nat /\ k <= Len(s) /\ j < k /\ j \notin Bad
      BY <2>3, <3>1
    <3>3. j <= Len(s) /\ j # Len(s)
      BY <1>0, <3>1, <3>2
    <3>4. j <= Len(t) /\ t[j] = s[j]
      BY <3>1, <3>2, <3>3
    <3>5. j \in DOMAIN s /\ k \in DOMAIN s /\ j \in DOMAIN t
      <4>1. j \in 1..Len(s) /\ k \in 1..Len(s) /\ j \in 1..Len(t)
        BY <1>0, <3>1, <3>2, <3>3, <3>4
      <4> QED BY <1>1, <4>1
    <3>6. next[s[j]] = s[k] /\ s[k] \in Node
      BY <1>1, <3>1, <3>3, <3>5 DEF IsChain
    <3>7. next[t[j]] = IF j = Len(t) THEN nullptr ELSE t[k]
      BY <3>1, <3>5 DEF IsChain
    <3>8. j # Len(t) /\ t[k] = s[k]
      BY <3>4, <3>6, <3>7
    <3>9. k <= Len(t)
      BY <1>0, <3>1, <3>4, <3>8
    <3> QED BY <2>3, <3>8, <3>9
  <2> QED BY <2>4, <2>5
<1>3. Len(t) <= Len(s)
  <2>1. SUFFICES ASSUME Len(s) < Len(t) PROVE FALSE
    BY <1>0
  <2>2. CASE Len(s) = 0
    BY <1>0, <1>1, <2>1, <2>2 DEF IsChain
  <2>3. CASE Len(s) > 0
    <3>1. PICK k \in DOMAIN s : k = Len(s) /\ k \in DOMAIN t /\ k # Len(t)
                                /\ k + 1 \in DOMAIN t /\ t[k] = s[k]
      BY <1>0, <1>1, <1>2, <2>1, <2>3
    <3>2. next[s[k]] = nullptr /\ next[t[k]] = t[k + 1]
      BY <3>1 DEF IsChain
    <3> QED BY <1>1, <3>1, <3>2
  <2> QED BY <1>0, <2>2, <2>3
<1>4. Len(s) = Len(t)
  <2>1. Len(s) # 0 => Len(s) <= Len(t)
    BY <1>0, <1>2
  <2> QED BY <1>0, <1>3, <2>1
<1> QED BY <1>0, <1>1, <1>2, <1>4

\* A list without repetitions is no longer than there are nodes.
LEMMA ShortList ==
    ASSUME NEW s \in Seq(Node), IsInjective(s)
    PROVE  s \in SeqOf(Node, Cardinality(Node))
<1>1. Cardinality(Range(s)) = Len(s)
  BY InjectiveRange
<1>2. Cardinality(Range(s)) <= Cardinality(Node) /\ Cardinality(Node) \in Nat
  BY SeqRange, FiniteNodes, FS_Subset, FS_CardinalityType
<1>3. Len(s) \in 0..Cardinality(Node) /\ s \in [1..Len(s) -> Node]
  BY <1>1, <1>2
<1> QED BY <1>3 DEF SeqOf

LEMMA ListsFound == ListsSpelled
<1> SUFFICES ASSUME NEW l \in List, NEW s \in Seq(Node), Spells(s, l)
             PROVE  chain(head[l]) = s
  BY DEF ListsSpelled, lists
<1>1. s \in SeqOf(Node, Cardinality(Node)) /\ IsChain(s, head[l])
  BY ShortList DEF Spells
<1>2. PICK t : t = chain(head[l])
  OBVIOUS
<1>3. t \in SeqOf(Node, Cardinality(Node)) /\ IsChain(t, head[l])
  BY <1>1, <1>2 DEF chain
<1>4. t \in Seq(Node)
  <2>1. PICK m \in 0..Cardinality(Node) : t \in [1..m -> Node]
    BY <1>3 DEF SeqOf
  <2>2. m \in Nat
    BY FiniteNodes, FS_CardinalityType
  <2> QED BY <2>1, <2>2
<1> QED BY <1>1, <1>2, <1>3, <1>4, OneChain

LEMMA SpelledLists ==
    ASSUME ChainInv, NEW l \in List
    PROVE  lists[l] \in Seq(Node) /\ Spells(lists[l], l)
  BY ListsFound DEF ChainInv, ListsSpelled

\* The nodes of two lists are apart, and next leads from a node of a list to
\* another one of it.
LEMMA InOneList ==
    ASSUME NEW l \in List, NEW m \in List, NEW s \in Seq(Node), NEW t \in Seq(Node),
           Spells(s, l), Spells(t, m), l # m
    PROVE  Range(s) \cap Range(t) = {}
  BY DEF Spells

LEMMA SameSequences ==
    (UNCHANGED vars) => UNCHANGED lists
  BY DEF vars, lists, chain, IsChain

\* An insertion puts the node in front of its list.
LEMMA ChainAdd ==
    ASSUME LinkInv, ChainInv, NEW n \in Node, NEW l \in List, AddToList(n, l),
           NEW s \in Seq(Node), Spells(s, l)
    PROVE  Spells(<<n>> \o s, l)'
<1> USE NullIsNoNode
<1>1. PICK t \in Seq(Node) : t = <<n>> \o s
  BY ConsFacts
<1>2. /\ Len(t) = Len(s) + 1 /\ t[1] = n
      /\ \A k \in 1..Len(s) : t[k + 1] = s[k]
      /\ Range(t) = Range(s) \cup {n}
  BY <1>1, ConsFacts
<1>3. n \notin Range(s)
  BY DEF Spells, AddToList
<1>4. IsInjective(t)
  BY <1>1, <1>3, ConsInjective DEF Spells
<1>5. /\ \A m \in Node : m # n => next'[m] = next[m]
      /\ next'[n] = head[l]
      /\ head'[l] = n
      /\ \A m \in Node : owner'[m] = IF m = n THEN l ELSE owner[m]
      /\ next[n] = nullptr
  BY DEF AddToList, LinkInv, TypeOK
<1>6. Range(t) = {m \in Node : owner'[m] = l}
  BY <1>2, <1>5 DEF Spells
<1>7. IsChain(t, head[l])'
  <2>0. Len(s) \in Nat
    OBVIOUS
  <2>1. Len(s) \in Nat /\ DOMAIN s = 1..Len(s) /\ DOMAIN t = 1..(Len(s) + 1)
    BY <1>2
  <2>2. t # <<>> /\ head'[l] = t[1]
    BY <1>2, <1>5, <2>1
  <2>3. ASSUME NEW k \in DOMAIN t
        PROVE  next'[t[k]] = IF k = Len(t) THEN nullptr ELSE t[k + 1]
    <3>1. CASE k = 1
      <4>1. next'[t[k]] = IF s = <<>> THEN nullptr ELSE s[1]
        BY <1>2, <1>5, <3>1 DEF Spells, IsChain
      <4>2. CASE s = <<>>
        BY <1>2, <3>1, <4>1, <4>2
      <4>3. CASE s # <<>>
        <5>1. Len(s) # 0 /\ 1 \in 1..Len(s)
          BY <2>1, <4>3
        <5>2. t[2] = s[1]
          BY <1>2, <5>1
        <5> QED BY <1>2, <2>1, <3>1, <4>1, <4>3, <5>1, <5>2
      <4> QED BY <4>2, <4>3
    <3>2. CASE k # 1
      <4>1. PICK j \in 1..Len(s) : k = j + 1
        <5>1. k - 1 \in 1..Len(s) /\ k = (k - 1) + 1
          BY <2>1, <3>2
        <5> QED BY <5>1
      <4>2. t[k] = s[j] /\ s[j] \in Range(s) /\ s[j] \in Node
        BY <1>2, <2>1, <4>1 DEF Range
      <4>3. next'[t[k]] = next[s[j]]
        BY <1>3, <1>5, <4>2
      <4>4. next[s[j]] = IF j = Len(s) THEN nullptr ELSE s[j + 1]
        BY <2>1 DEF Spells, IsChain
      <4>5. j # Len(s) => t[k + 1] = s[j + 1]
        <5>1. SUFFICES ASSUME j # Len(s) PROVE t[k + 1] = s[j + 1]
          OBVIOUS
        <5>2. k \in 1..Len(s)
          BY <2>0, <4>1, <5>1
        <5> QED BY <1>2, <4>1, <5>2
      <4>6. k = Len(t) <=> j = Len(s)
        BY <1>2, <2>0, <4>1
      <4> QED BY <4>3, <4>4, <4>5, <4>6
    <3> QED BY <3>1, <3>2
  <2> QED BY <2>2, <2>3 DEF IsChain
<1> QED BY <1>1, <1>4, <1>6, <1>7 DEF Spells

\* A removal links the neighbours of the node.
LEMMA ChainRemove ==
    ASSUME LinkInv, ChainInv, NEW n \in Node, NEW l \in List, RemoveFromList(n, l),
           NEW s \in Seq(Node), Spells(s, l)
    PROVE  \E k \in DOMAIN s : s[k] = n /\ Spells(RemoveAt(s, k), l)'
<1> USE NullIsNoNode
<1>1. n \in Range(s)
  BY DEF RemoveFromList, Spells
<1>2. PICK k \in DOMAIN s : s[k] = n
  BY <1>1 DEF Range
<1>3. PICK t \in Seq(Node) : t = RemoveAt(s, k)
  BY RemoveAtFacts
<1>4. /\ Len(t) = Len(s) - 1
      /\ \A j \in 1..(Len(s) - 1) : t[j] = IF j < k THEN s[j] ELSE s[j + 1]
  BY <1>3, RemoveAtFacts
<1>5. IsInjective(s)
  BY DEF Spells
<1>6. Range(t) = Range(s) \ {n} /\ IsInjective(t)
  BY <1>2, <1>3, <1>5, RemoveAtRange
<1>7. /\ \A m \in Node : next'[m] = IF m = n THEN nullptr
                                    ELSE IF m = prev[n] THEN next[n] ELSE next[m]
      /\ head'[l] = IF head[l] = n THEN next[n] ELSE head[l]
      /\ \A m \in Node : owner'[m] = IF m = n THEN nullptr ELSE owner[m]
      /\ owner[n] = l
  BY DEF RemoveFromList, LinkInv, TypeOK, relink
<1>8. Range(t) = {m \in Node : owner'[m] = l}
  BY <1>6, <1>7 DEF Spells
<1>9. PICK len \in Nat : len = Len(s)
  OBVIOUS
<1>10. /\ DOMAIN s = 1..len /\ DOMAIN t = 1..(len - 1)
       /\ k \in 1..len
       /\ \A j \in 1..len : s[j] \in Node
  BY <1>2, <1>4, <1>9
<1>11. \A j \in 1..len : next[s[j]] = IF j = len THEN nullptr ELSE s[j + 1]
  BY <1>9, <1>10 DEF Spells, IsChain
<1>12. head[l] = s[1]
  BY <1>10 DEF Spells, IsChain
\* The predecessor of n is before it in s.
<1>13. \A j \in 1..len : s[j] = prev[n] <=> j + 1 = k
  <2>1. SUFFICES ASSUME NEW j \in 1..len PROVE s[j] = prev[n] <=> j + 1 = k
    OBVIOUS
  <2>2. ASSUME s[j] = prev[n] PROVE j + 1 = k
    <3>1. next[s[j]] = n
      BY <1>10, <2>2 DEF LinkInv, LinksAgree
    <3>2. j # len /\ s[j + 1] = s[k]
      BY <1>2, <1>11, <3>1
    <3>3. j + 1 \in 1..len
      BY <1>9, <3>2
    <3> QED BY <1>5, <1>10, <3>2, <3>3 DEF IsInjective
  <2>3. ASSUME j + 1 = k PROVE s[j] = prev[n]
    <3>1. j # len
      BY <1>10, <2>3
    <3>2. next[s[j]] = n
      BY <1>2, <1>11, <2>3, <3>1
    <3> QED BY <1>10, <3>2 DEF LinkInv, LinksAgree
  <2> QED BY <2>2, <2>3
<1>14. ASSUME NEW j \in 1..(len - 1)
       PROVE  next'[t[j]] = IF j = len - 1 THEN nullptr ELSE t[j + 1]
  <2>1. j \in 1..len /\ j + 1 \in 1..len
    BY <1>9
  <2>2. CASE j + 1 < k
    <3>1. t[j] = s[j] /\ j + 1 \in 1..(len - 1)
      BY <1>4, <1>9, <1>10, <2>2
    <3>2. t[j + 1] = s[j + 1]
      BY <1>4, <1>9, <2>2, <3>1
    <3>3. j # k /\ j + 1 # k /\ j # len /\ j # len - 1
      BY <1>10, <2>1, <2>2
    <3>4. s[j] # n /\ s[j] # prev[n] /\ s[j] \in Node
      BY <1>2, <1>5, <1>10, <1>13, <2>1, <3>3 DEF IsInjective
    <3> QED BY <1>7, <1>11, <2>1, <3>1, <3>2, <3>3, <3>4
  <2>3. CASE j + 1 = k
    <3>1. t[j] = s[j] /\ s[j] = prev[n] /\ s[j] \in Node
      <4>1. j < k
        BY <1>10, <2>3
      <4> QED BY <1>4, <1>9, <1>10, <1>13, <2>1, <2>3, <4>1
    <3>2. s[j] # n
      BY <1>2, <1>5, <1>10, <2>1, <2>3 DEF IsInjective
    <3>3. next'[t[j]] = next[n]
      BY <1>7, <3>1, <3>2
    <3>4. next[n] = IF k = len THEN nullptr ELSE s[k + 1]
      BY <1>2, <1>10, <1>11
    <3>5. k = len <=> j = len - 1
      BY <2>3
    <3>6. j # len - 1 => t[j + 1] = s[k + 1]
      <4>1. SUFFICES ASSUME j # len - 1 PROVE t[j + 1] = s[k + 1]
        OBVIOUS
      <4>2. k \in 1..(len - 1) /\ ~(k < k)
        BY <2>1, <2>3, <4>1
      <4> QED BY <1>4, <1>9, <2>3, <4>2
    <3> QED BY <3>3, <3>4, <3>5, <3>6
  <2>4. CASE k < j + 1
    <3>1. t[j] = s[j + 1] /\ s[j + 1] \in Node
      BY <1>4, <1>9, <1>10, <2>1, <2>4
    <3>2. j + 1 # k /\ (j + 1) + 1 # k
      BY <1>10, <2>1, <2>4
    <3>3. s[j + 1] # n /\ s[j + 1] # prev[n]
      BY <1>2, <1>5, <1>10, <1>13, <2>1, <3>2 DEF IsInjective
    <3>4. next'[t[j]] = next[s[j + 1]]
      BY <1>7, <3>1, <3>3
    <3>5. next[s[j + 1]] = IF j + 1 = len THEN nullptr ELSE s[(j + 1) + 1]
      BY <1>11, <2>1
    <3>6. j # len - 1 => t[j + 1] = s[(j + 1) + 1]
      <4>1. SUFFICES ASSUME j # len - 1 PROVE t[j + 1] = s[(j + 1) + 1]
        OBVIOUS
      <4>2. j + 1 \in 1..(len - 1) /\ ~(j + 1 < k)
        BY <1>10, <2>1, <2>4, <4>1
      <4> QED BY <1>4, <1>9, <4>2
    <3>7. j = len - 1 <=> j + 1 = len
      BY <2>1
    <3> QED BY <3>4, <3>5, <3>6, <3>7
  <2> QED BY <1>10, <2>1, <2>2, <2>3, <2>4
<1>15. head'[l] = IF t = <<>> THEN nullptr ELSE t[1]
  <2>1. head[l] = n <=> k = 1
    BY <1>2, <1>5, <1>10, <1>12 DEF IsInjective
  <2>2. CASE len = 1
    <3>1. k = 1 /\ next[n] = nullptr /\ t = <<>>
      BY <1>2, <1>4, <1>9, <1>10, <1>11, <2>2
    <3> QED BY <1>7, <2>1, <3>1
  <2>3. CASE len # 1
    <3>1. 1 \in 1..(len - 1) /\ 1 \in 1..len
      BY <1>9, <1>10, <2>3
    <3>2. t # <<>>
      BY <1>10, <3>1
    <3>3. CASE k = 1
      <4>1. t[1] = s[2] /\ next[n] = s[2]
        BY <1>2, <1>4, <1>9, <1>11, <2>3, <3>1, <3>3
      <4> QED BY <1>7, <2>1, <3>2, <3>3, <4>1
    <3>4. CASE k # 1
      <4>1. t[1] = s[1]
        BY <1>4, <1>9, <1>10, <3>1, <3>4
      <4> QED BY <1>7, <1>12, <2>1, <3>2, <3>4, <4>1
    <3> QED BY <3>3, <3>4
  <2> QED BY <2>2, <2>3
<1>16. IsChain(t, head[l])'
  BY <1>4, <1>9, <1>10, <1>14, <1>15 DEF IsChain
<1> QED BY <1>2, <1>3, <1>6, <1>8, <1>16 DEF Spells

\* No other list changes.
LEMMA OtherChains ==
    ASSUME LinkInv, ChainInv, NEW n \in Node, NEW l \in List,
           AddToList(n, l) \/ RemoveFromList(n, l),
           NEW m \in List, m # l, NEW s \in Seq(Node), Spells(s, m)
    PROVE  Spells(s, m)'
<1> USE NullIsNoNode
<1>1. n \notin Range(s) /\ (prev[n] # nullptr => prev[n] \notin Range(s))
  BY DEF AddToList, RemoveFromList, Spells, LinkInv, LinksAgree, TypeOK
<1>2. /\ \A q \in Node : q \in Range(s) => next'[q] = next[q]
      /\ head'[m] = head[m]
      /\ \A q \in Node : owner'[q] = m <=> owner[q] = m
  BY <1>1 DEF AddToList, RemoveFromList, LinkInv, TypeOK, Pointer, relink
<1>3. \A k \in DOMAIN s : s[k] \in Node /\ s[k] \in Range(s)
  BY DEF Range
<1>4. IsChain(s, head[m])'
  BY <1>2, <1>3 DEF Spells, IsChain
<1> QED BY <1>2, <1>4 DEF Spells

\* Each step is the step of the sequences.
LEMMA ListStep ==
    ASSUME LinkInv, ChainInv, ListsSpelled', NEW n \in Node, NEW l \in List,
           AddToList(n, l) \/ RemoveFromList(n, l)
    PROVE  ChainInv' /\ Sequences!Next
<1>1. PICK s \in Seq(Node) : s = lists[l] /\ Spells(s, l)
  BY SpelledLists
<1>2. \A m \in List \ {l} : /\ lists[m] \in Seq(Node)
                            /\ Spells(lists[m], m)
  BY SpelledLists
<1>3. ASSUME NEW m \in List \ {l}
      PROVE  \E q \in Seq(Node) : q = lists[m] /\ Spells(q, m)'
  <2>1. PICK q \in Seq(Node) : q = lists[m] /\ Spells(q, m)
    BY <1>2
  <2> QED BY <2>1, OtherChains
<1>4. \A m \in List \ {l} : lists'[m] = lists[m]
  BY <1>3 DEF ListsSpelled
<1>5. /\ DOMAIN lists = List /\ DOMAIN lists' = List
      /\ lists = [m \in List |-> lists[m]]
      /\ lists' = [m \in List |-> lists'[m]]
  BY DEF lists
<1>6. CASE AddToList(n, l)
  <2>1. PICK t \in Seq(Node) : t = <<n>> \o s
    BY ConsFacts
  <2>2. Spells(t, l)'
    BY <1>1, <1>6, <2>1, ChainAdd
  <2>3. ChainInv'
    BY <1>3, <2>2 DEF ChainInv
  <2>4. lists'[l] = <<n>> \o lists[l]
    BY <1>1, <2>1, <2>2 DEF ListsSpelled
  <2>5. \A m \in List : n \notin Range(lists[m])
    BY <1>1, <1>2, <1>6, NullIsNoNode DEF Spells, AddToList
  <2>6. lists' = [lists EXCEPT ![l] = <<n>> \o @]
    BY <1>4, <1>5, <2>4
  <2>7. Sequences!AddToList(n, l)
    BY <2>5, <2>6 DEF Sequences!AddToList, Sequences!Range, Range
  <2> QED BY <2>3, <2>7 DEF Sequences!Next
<1>7. CASE RemoveFromList(n, l)
  <2>1. PICK k \in DOMAIN s : s[k] = n /\ Spells(RemoveAt(s, k), l)'
    BY <1>1, <1>7, ChainRemove
  <2>2. PICK t \in Seq(Node) : t = RemoveAt(s, k)
    BY RemoveAtFacts
  <2>3. Spells(t, l)'
    BY <2>1, <2>2
  <2>4. ChainInv'
    BY <1>3, <2>3 DEF ChainInv
  <2>5. lists'[l] = RemoveAt(lists[l], k)
    BY <1>1, <2>2, <2>3 DEF ListsSpelled
  <2>6. lists' = [lists EXCEPT ![l] = RemoveAt(@, k)]
    BY <1>4, <1>5, <2>5
  <2>7. Sequences!RemoveFromList(n, l)
    BY <1>1, <2>1, <2>6 DEF Sequences!RemoveFromList, Sequences!RemoveAt, RemoveAt
  <2> QED BY <2>4, <2>7 DEF Sequences!Next
<1> QED BY <1>6, <1>7

LEMMA ListInit == Init => ChainInv /\ Sequences!Init
<1> SUFFICES ASSUME Init PROVE ChainInv /\ Sequences!Init
  OBVIOUS
<1>1. ASSUME NEW l \in List PROVE Spells(<<>>, l)
  BY NullIsNoNode DEF Init, Spells, IsChain, IsInjective, Range
<1>2. <<>> \in Seq(Node)
  OBVIOUS
<1>3. lists = [l \in List |-> <<>>]
  <2>1. \A l \in List : chain(head[l]) = <<>>
    <3>1. \A l \in List : lists[l] = <<>>
      BY <1>1, <1>2, ListsFound DEF ListsSpelled
    <3> QED BY <3>1 DEF lists
  <2> QED BY <2>1 DEF lists
<1> QED BY <1>1, <1>2, <1>3 DEF ChainInv, Sequences!Init

\* Seen along the links the lists are sequences: addToList puts a node in
\* front, removeFromList takes it out of the list it is in, wherever it is
\* there, and no other list changes.
THEOREM SequencesCorrect == Spec => ImplementsSequences
<1>1. Init => ChainInv /\ Sequences!Init
  BY ListInit
<1>2. LinkInv /\ ChainInv /\ ListsSpelled' /\ [Next]_vars
         => ChainInv' /\ [Sequences!Next]_lists
  <2>1. SUFFICES ASSUME LinkInv, ChainInv, ListsSpelled', [Next]_vars
                 PROVE  ChainInv' /\ [Sequences!Next]_lists
    OBVIOUS
  <2>2. CASE UNCHANGED vars
    <3>1. ChainInv'
      BY <2>1, <2>2 DEF ChainInv, Spells, IsChain, vars
    <3> QED BY <2>2, <3>1, SameSequences
  <2>3. CASE Next
    BY <2>1, <2>3, ListStep DEF Next
  <2> QED BY <2>1, <2>2, <2>3
<1>3. ListsSpelled
  BY ListsFound
<1>4. Spec => []LinkInv
  <2>1. Spec => [](TypeOK /\ LinksAgree)
    BY LinksCorrect
  <2> QED BY <2>1 DEF LinkInv
<1> QED BY <1>1, <1>2, <1>3, <1>4, PTL DEF Spec, ImplementsSequences, Sequences!Spec
=============================================================================
