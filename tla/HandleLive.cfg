SPECIFICATION FairSpec
CONSTANTS
    Clients = {c1, c2}
    Closers = {k1}
    Chans = {h1, h2}
    MaxTicket = 2
    Kinds <- MCOwned
    Pool = 1
    MaxUncollected = 0
    ReaderMayFail = TRUE
    NoChan = NoChan
    Collecting = Collecting
PROPERTIES ImplementsTickets WaiterReturns CallersReleased
CHECK_DEADLOCK FALSE
