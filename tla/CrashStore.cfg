\* Seven blocks: three nodes of one value each and one block over, or a node
\* of two texts and, beside it, one of a number.
\* A file that is hurt is not followed: the model stops there.
SPECIFICATION CrashSpec
CONSTANTS
    Ptr = {p1, p2, p3, p4, p5, p6, p7}
    Null = Null
    MaxAttributes = 2
    MaxGone = 2
    MaxCuts = 3
SYMMETRY Addresses
INVARIANTS Recoverable CompletedReachable LeakBounded
CHECK_DEADLOCK FALSE
