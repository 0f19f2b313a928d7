SPECIFICATION Spec
CONSTANTS
    n1 = n1
    n2 = n2
    n3 = n3
    n4 = n4
    l1 = l1
    l2 = l2
    Node <- MCNode
    List <- MCList
    nullptr = nullptr
INVARIANTS
    TypeOK
    LinksAgree
PROPERTY ImplementsSequences
