SPECIFICATION SessionSpec
CONSTANTS
    r1 = r1
    Ranges <- MCRanges
    ServerMessages <- MCServerMessages
    Writers <- MCWriters
    MaxMessages = 2
    MaxWrites = 1
    MaxAttempts = 2
    MaxIoThreads = 1
    MaxHandlers = 3
    NoIds = NoIds
    Garbage <- MCGarbage
    None = None
    Bin = Bin
INVARIANTS
    AuthIsFirst
    WorkersDoNotOverlap
    RegisteredByOwnIds
PROPERTIES
    RequestIsAnswered
    ClientIsRegistered
CHECK_DEADLOCK FALSE
