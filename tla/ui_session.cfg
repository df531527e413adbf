SPECIFICATION LiveSpec
CONSTANTS
    m1 = m1
    m2 = m2
    Model = {m1, m2}
    Revisions = 2
    Gone = {1}
    Asks = 2
    Retries = 1
    Faults = 1
    None = None
CHECK_DEADLOCK FALSE
INVARIANTS AbandonedReleased ShownIsIntended
PROPERTIES KeptWhileGood CatchesUp
