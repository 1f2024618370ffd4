CONSTANTS
    None = None
    Torn = Torn
    Fold = {f1, f2, f3}
    Loader = {l1, l2}
    Puller = {p1}
    Compat = {c1}
    Rank = {8, 16}
    EpochFolds = 2
    Backends = {"fs", "s3"}
    FaultSets = {{}, {"version"}, {"read"}}
    MaxCrashes = 1
SPECIFICATION MCFairStoreSpec
INVARIANTS
    TypeOK
    CursorNotAhead
    CacheInStep
    FrozenFactorAgrees
    
PROPERTIES
    RankPinned
    
    ImplementsGlobal
    EveryFoldEnds
CHECK_DEADLOCK FALSE
