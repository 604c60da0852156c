SPECIFICATION Spec
CONSTANTS
    Shards <- MCShards
    Bins <- MCBins
    NoBin = NoBin
    Weights = {}
    MaxIterations = 2
    MaxPicks = 1
    SampleSize = 50
    ShardMetric <- MCMetrics
    IntLimit = 512
    UpperTree <- MCRacks
    ConstraintList <- MCCovered
INVARIANTS
    BalanceMetricsExact
    BothCoversBeforeAndAfter
