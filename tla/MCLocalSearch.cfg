SPECIFICATION SearchSpec
CONSTANTS
    s1 = s1
    s2 = s2
    b1 = b1
    b2 = b2
    b3 = b3
    NoBin = NoBin
    Shards <- MCShards
    Bins <- MCBins
    Weights <- MCWeights
    MaxIterations = 2
    MaxPicks = 2
    SampleSize = 1
INVARIANTS
    SearchTypeOK
    CommittedMovesConsistent
    OneShardPerIteration
PROPERTIES
    CommittedMovesAreFinal
    SolveReturns
