SPECIFICATION Spec
CONSTANTS
    j1 = j1
    j2 = j2
    j3 = j3
    w1 = w1
    w2 = w2
    Absent = Absent
    Jobs = {j1}
    Request <- MCOneRetried
    MaxBackoffMs = 2
    JitterMaxMs = 0
    StoreFaults = {}
    Batch = 2
    MaxNow = 3
    Workers = {w1}
    MaxPerDomain = 1
    Environment = {"delete"}
INVARIANTS
    DeleteIsFinal
