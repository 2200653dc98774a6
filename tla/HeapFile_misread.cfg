\* As HeapFile.cfg, but the database is reopened at any moment.
SPECIFICATION Spec
CONSTANTS
    H = 1
    Base = 1
    M = 32
    Requests = {1, 2, 4}
    Limit = 13
    MaxFreed = 2
    Garbage <- TextOrZeros
INVARIANT HeapHoldsFreeBlocks
