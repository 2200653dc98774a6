\* Seven blocks: one node and three links, or two nodes and two links.
SPECIFICATION Spec
CONSTANTS
    Ptr = {p1, p2, p3, p4, p5, p6, p7}
    Null = Null
    Scores = {1, 2}
    Conditions = {{1}, {1, 2}}
    Types = {1}
    AnyType = 3
    Names <- TwoNames
    MaxNodes = 2
SYMMETRY Addresses
PROPERTY DropsOnlyMatched
