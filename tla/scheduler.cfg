SPECIFICATION Spec
CONSTANTS
    j1 = j1
    j2 = j2
    j3 = j3
    j4 = j4
    Job = {j1, j2, j3, j4}
    Device <- MCDevice
    Workers = 1
CHECK_DEADLOCK FALSE
INVARIANTS DeviceExclusive
PROPERTIES CancelRespected JobsEnd
