SPECIFICATION Spec
CONSTANTS
    j1 = j1
    w1 = w1
    Absent = Absent
    Jobs = {j1}
    Request <- MCOneShot
    MaxBackoffMs = 1
    JitterMaxMs = 0
    StoreFaults = {}
    Batch = 1
    MaxNow = 2
    Workers = {w1}
    MaxPerDomain = 1
    Environment = {"delete"}
INVARIANTS
    NoJobIsLost
