SPECIFICATION FairSpec
CONSTANTS
    Clients = {c1, c2, c3}
    Closers = {}
    Chans = {h1, h2, h3}
    MaxTicket = 2
    Kinds <- MCInline
    Pool = 2
    MaxUncollected = 1
    ReaderMayFail = FALSE
    NoChan = NoChan
    Collecting = Collecting
PROPERTY RoomWakesSubmitter
CHECK_DEADLOCK FALSE
