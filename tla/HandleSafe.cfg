SPECIFICATION Spec
CONSTANTS
    Clients = {c1, c2}
    Closers = {k1, k2}
    Chans = {h1, h2}
    MaxTicket = 3
    Kinds <- MCMixed
    Pool = 2
    MaxUncollected = 1
    ReaderMayFail = TRUE
    NoChan = NoChan
    Collecting = Collecting
SYMMETRY Symmetry
INVARIANTS PermitsKept ResultsKept WaiterWillHear CloseLeavesNothing
CHECK_DEADLOCK FALSE
