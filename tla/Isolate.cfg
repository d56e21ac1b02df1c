SPECIFICATION MCSpec
CONSTANTS
    Callers = {c1, c2}
    MaxTicket = 2
    PoolSizes = {1, 2}
    PipeFrames = 1
    Nobody = Nobody
INVARIANTS StreamsWhole ProcTickets AnswersKept
SYMMETRY CallerSymmetry
CHECK_DEADLOCK FALSE
