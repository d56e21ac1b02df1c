\* Liveness: no symmetry.
SPECIFICATION ProcFairSpec
CONSTANTS
    Callers = {c1, c2}
    MaxTicket = 1
    PoolSizes = {1}
    PipeFrames = 1
    Nobody = Nobody
PROPERTY ProcSettles
CHECK_DEADLOCK FALSE
