SPECIFICATION BoundarySpec
CONSTANTS
    GuardThreads = {t1, t2}
    Stranger = Stranger
    MaxLocations = 2
    NullCalls = {"bound"}
    NoSite = NoSite
    LogThreads = {l1, l2}
    Lines <- MCLines
    DrainSizes = {1, 3}
    Capacity = 6
    MaxDropped = 1
    NoThread = NoThread
    Writers = {w1, w2, w3}
    RecordMax = 2
    BsdPipe = 6
    PipeSizes = {1, 3, 6}
    GrowLimits = {2, 3, 6}
    NoWriter = NoWriter
    WorkUnits = {u1}
    Opcodes = {o1, o2}
    Timeouts = {0, 2}
    ClockEnd = 2
    MaxHandlers = 3
    Threads = {t1, t2}
    Kinds = {"counted", "global", "system", "buffer"}
    Sizes = {0, 1, 3}
    Ids = {b1, b2}
    MaxCalls = 4
    Wrap = 7
    SATURATED = 3
    FAST_ADD_MAX = 1
    NoBlock = NoBlock
INVARIANTS LocationRight PanicPoisons MessagesOwned LogSound PipeKept TimeoutKept Headroom CountsKept
PROPERTIES DispatchRight NeverWraps
SYMMETRY BoundarySymmetry
CHECK_DEADLOCK FALSE
