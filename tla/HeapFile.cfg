\* No content looks like a header: the database is reopened only when every
\* header has been written.
SPECIFICATION Spec
CONSTANTS
    H = 1
    Base = 1
    M = 32
    Requests = {1, 2, 4}
    Limit = 13
    MaxFreed = 2
    Garbage = {}
INVARIANTS HeapOrdered FileAgrees
PROPERTIES StoreSpec ReopenRestores
