SPECIFICATION Spec
CONSTANTS
    b1 = b1
    r1 = r1
    MaxIoThreads = 1
    MaxHandlers = 2
    Bins <- MCBins
    NoIds = NoIds
    Ranges <- MCRanges
    Garbage <- MCGarbage
    None = None
PROPERTIES
    FailedReadCloses
CHECK_DEADLOCK FALSE
