SPECIFICATION Spec
CONSTANTS
    j1 = j1
    j2 = j2
    j3 = j3
    w1 = w1
    w2 = w2
    Absent = Absent
    Jobs = {j1, j2}
    Request <- MCMixedPair
    MaxBackoffMs = 1
    JitterMaxMs = 0
    StoreFaults = {"rejected", "unacked"}
    Batch = 2
    MaxNow = 2
    Workers = {w1, w2}
    MaxPerDomain = 1
    Environment = {"delete", "signal", "crash", "restart"}
SYMMETRY MCWorkerSymmetry
INVARIANTS
    TypeOK
    SingleOwner
    Ownership
    ScheduleMatchesRecord
    NeverEarly
    AttemptsCounted
    AttemptsBounded
    NoFireAfterSuccess
    FailedIsRetired
PROPERTIES
    ImplementsLifecycle
