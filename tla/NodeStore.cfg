\* Six blocks: six nodes without values, three with plain values, two with a
\* text, or one node with two texts and a node besides.
SPECIFICATION Spec
CONSTANTS
    Ptr = {p1, p2, p3, p4, p5, p6}
    Null = Null
    MaxValues = 2
SYMMETRY Addresses
INVARIANTS ListSound OwnedOnce
PROPERTY EntitiesSpec
