SPECIFICATION FairSpec
CONSTANTS
    Submitters = {s1, s2}
    MaxThread = 3
    Pool = 2
    Nobody = Nobody
INVARIANTS PoolCounted NothingLeftBehind
PROPERTY WorkersSettle
CHECK_DEADLOCK FALSE
