SPECIFICATION FairSpec
CONSTANTS
    j1 = j1
    j2 = j2
    j3 = j3
    w1 = w1
    w2 = w2
    Absent = Absent
    Jobs = {j1, j2, j3}
    Request <- MCMixedThree
    MaxBackoffMs = 1
    JitterMaxMs = 0
    StoreFaults = {}
    Batch = 2
    MaxNow = 2
    Workers = {w1}
    MaxPerDomain = 1
    Environment = {"signal"}
CHECK_DEADLOCK FALSE
INVARIANTS
    PendingIsTracked
PROPERTIES
    DueJobIsSent
    ClaimIsReleased
    ShutdownCompletes
