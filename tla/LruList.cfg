CONSTANTS
    Node = {n1, n2, n3, n4, n5}
    head = head
    tail = tail
    Null = Null
SPECIFICATION ListSpec
INVARIANTS
    WellLinked
PROPERTY
    ImplementsLruOrder
