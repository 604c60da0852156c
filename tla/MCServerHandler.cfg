SPECIFICATION Spec
CONSTANTS
    b1 = b1
    r1 = r1
    MaxIoThreads = 2
    MaxHandlers = 3
    Bins <- MCBins
    NoIds = NoIds
    Ranges <- MCRanges
    Garbage <- MCGarbage
    None = None
INVARIANTS
    EventsFindHandler
    AcceptsNextClient
    WaitersBounded
PROPERTIES
    AuthenticatedIsClosed
CHECK_DEADLOCK FALSE
