SPECIFICATION LiveSpec
CONSTANTS
    s1 = s1
    s2 = s2
    observer = observer
    Caller = {observer}
    Observer = observer
    Versions = 3
    Shards = 0
    Indexed = {}
    Absent = {3}
    Broken = {1}
    Unreadable = {2}
    Attempts = 2
    Subscriber = {s1, s2}
    Joins = 1
    Capacity = 2
    MaxDelay = 2
    Aclose = Aclose
    None = None
CHECK_DEADLOCK FALSE
INVARIANTS OneObserver NewestFrameKept
PROPERTIES Debounced Informed StreamsEnd
