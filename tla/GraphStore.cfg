\* Three addresses and six entities: an address is used again for another kind.
SPECIFICATION Spec
CONSTANTS
    Ptr = {p1, p2, p3}
    Null = Null
    Names <- TwoNames
    NoName = NoName
    MaxBorn = 6
SYMMETRY Addresses
INVARIANTS MembersMatched LinkedAsCreated
