SPECIFICATION ManagerSpec
CONSTANTS
    s1 = s1
    s2 = s2
    Services <- MCServices
    NoService = NoService
    NoMapping = NoMapping
    KeyLimit = 32
    Calls <- MCCalls
INVARIANTS
    KeysCovered
    RangesAscend
    RangesBounded
    ServiceKeysCovered
PROPERTIES
    PopulateReturns
