SPECIFICATION DeliverySpec
CONSTANTS
    j1 = j1
    w1 = w1
    w2 = w2
    Absent = Absent
    Jobs = {j1}
    Request <- MCOneShot
    MaxBackoffMs = 2
    JitterMaxMs = 1
    StoreFaults = {"rejected", "unacked"}
    Batch = 1
    MaxNow = 3
    Workers = {w1, w2}
    MaxPerDomain = 2
    Environment = {"delete", "signal", "crash", "restart"}
    Answers <- MCAnswers
    Remembered = {200, 299}
SYMMETRY MCWorkerSymmetry
INVARIANTS
    OneEffect
PROPERTIES
    TableIsFollowed
