SPECIFICATION FairStartupSpec
CONSTANTS
    IntBits = 8
    FloatBits = 5
    Ints <- MCInts
    NsPerMs = 3
CHECK_DEADLOCK FALSE
INVARIANTS
    RunningIsSound
PROPERTIES
    ListenFailureStopsService
