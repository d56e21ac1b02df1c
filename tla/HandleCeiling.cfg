SPECIFICATION Spec
CONSTANTS
    Clients = {c1, c2}
    Closers = {k1}
    Chans = {h1, h2}
    MaxTicket = 2
    Kinds <- MCInline
    Pool = 2
    MaxUncollected = 1
    ReaderMayFail = FALSE
    NoChan = NoChan
    Collecting = Collecting
INVARIANT UncollectedCeiling
CHECK_DEADLOCK FALSE
