SPECIFICATION Spec
CONSTANTS
    k1 = k1
    k2 = k2
    c1 = c1
    c2 = c2
    c3 = c3
    c4 = c4
    s1 = s1
    s2 = s2
    Key = {k1, k2}
    Direct = {k2}
    Dep <- MCDep
    Consumer = {c1, c2}
    Asks <- AsksMixed
    Session = {s1, s2}
    Chunks = 2
    Warm = {k1}
    Events = {"lookup", "begin", "producer", "append", "commit", "abort", "open", "read", "evict", "session", "close"}
    None = None
CHECK_DEADLOCK FALSE
INVARIANTS CompleteDelivery FilesReleased
PROPERTIES NoWorkAfterCancel TerminalStable
