\* Pools that fit the ring, as the Go side grants them, and two that do not:
\* the overflow path, with a pipe that was sized for records and without.
SPECIFICATION FairSpec
CONSTANTS
    Producers = {p1, p2}
    MaxTicket = 3
    Kinds <- MCKinds
    Cap = 2
    PoolSizes = {2, 3, 4}
    InlinePools = {2, 3}
    PipeCap = 2
INVARIANTS NoSleepingReader RingIntact
PROPERTY ReaderKeepsUp
CHECK_DEADLOCK FALSE
