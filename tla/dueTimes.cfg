SPECIFICATION Spec
CONSTANTS
    IntBits = 8
    FloatBits = 5
    MaxExponent = 9
    MaxBackoffMs = 2
    JitterMaxMs = 1
    MaxAttempts = 14
    Intervals = {1, 7, 33, 95, 96}
    Bases = {1, 3, 65}
INVARIANTS
    FoundWhenDue
PROPERTIES
    IntervalIsKept
    BackoffIsExact
