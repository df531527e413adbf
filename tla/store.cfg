SPECIFICATION Spec
CONSTANTS
    w1 = w1
    w2 = w2
    r1 = r1
    a = a
    b = b
    Writer = {w1, w2}
    Lookup = {r1}
    Content = {a, b}
    Events = {"error", "crash", "power", "evict", "truncate"}
    None = None
CHECK_DEADLOCK FALSE
INVARIANTS HitIntegrity NothingLeftBehind
PROPERTIES FirstWins CommitEnds
