SPECIFICATION FairSpec
CONSTANTS
    Workers = {w1, w2, w3}
    Domains = {d1, d2}
    MaxPerDomain = 2
    NoSem = NoSem
INVARIANTS
    TypeOK
    MapAccessIsExclusive
    SemInv
PROPERTIES
    ImplementsLimiter
    DomainIsEntered
