\* Two clients with two queries each; the server ends at most twice.
SPECIFICATION Spec
CONSTANTS
    Clients = {c1, c2}
    None = None
    Types = {"SCHEMA_CREATE", "SCHEMA_GET", "LINK_DELETE"}
    MaxLines = 2
    MaxEnds = 2
INVARIANTS TypeOK InFlight AnsweredIsStored StoredAsTyped OnlyEndsDamage
PROPERTY NobodyWaitsForever
CHECK_DEADLOCK FALSE
