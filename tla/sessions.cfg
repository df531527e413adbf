SPECIFICATION Spec
CONSTANTS
    c1 = c1
    c2 = c2
    Caller = {c1, c2}
    Versions = 1
    Shards = 1
    Indexed = {0}
    Absent = {}
    Broken = {}
    Unreadable = {}
    Attempts = 2
    Requests = 3
    MaxSession = 2
    Kinds = {"create", "query", "direct", "artifact", "delete"}
    None = None
SYMMETRY Clients
CHECK_DEADLOCK FALSE
INVARIANTS OneSnapshot NoOrphan
PROPERTIES OnlySnapshotDelivered
