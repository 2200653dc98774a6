\* Seven blocks: three schemas without attributes, or one beside one with an
\* attribute.
SPECIFICATION Spec
CONSTANTS
    Ptr = {p1, p2, p3, p4, p5, p6, p7}
    Null = Null
    Names <- TwoNames
    MaxAttrs = 1
SYMMETRY Addresses
INVARIANTS ListEnds OwnedOnce
PROPERTY OnlyTailDropLosesEnd
