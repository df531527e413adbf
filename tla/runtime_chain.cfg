SPECIFICATION Spec
CONSTANTS
    k1 = k1
    k2 = k2
    c1 = c1
    c2 = c2
    c3 = c3
    c4 = c4
    s1 = s1
    s2 = s2
    Key = {k1, k2}
    Direct = {}
    Dep <- MCDep
    Consumer = {c1, c2, c3}
    Asks <- AsksChain
    Session = {s1}
    Chunks = 1
    Warm = {}
    Events = {"close"}
    None = None
CHECK_DEADLOCK FALSE
INVARIANTS SharedWork IndependentCancellation
PROPERTY ImplementsShared
