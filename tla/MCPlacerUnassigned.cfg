SPECIFICATION Spec
CONSTANTS
    Shards <- MCShards
    Bins <- MCBins
    NoBin = NoBin
    Weights = {}
    MaxIterations = 9
    MaxPicks = 2
    SampleSize = 50
    ShardMetric <- MCMetrics
    IntLimit = 512
    UpperTree <- MCRacks
    ConstraintList <- MCContainersFirst
INVARIANTS
    UnassignedFirst
