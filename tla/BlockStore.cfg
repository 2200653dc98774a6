\* Header of 2, database header of 1, 21 more addresses, amounts modulo 64.
SPECIFICATION Spec
CONSTANTS
    H = 2
    Base = 1
    M = 64
    Requests = {1, 2, 4}
    Limit = 22
INVARIANTS TypeOK NoOverlap Covered WasteBounded
PROPERTIES LiveStable GrowsOnlyIfFull
