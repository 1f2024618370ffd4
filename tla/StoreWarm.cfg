CONSTANTS
    None = None
    Torn = Torn
    Fold = {f1, f2}
    Loader = {l1, l2}
    Puller = {}
    Compat = {c1}
    Rank = {8}
    EpochFolds = 2
    Backends = {"s3"}
    FaultSets = {{}}
    MaxCrashes = 0
SPECIFICATION StoreSpec
INVARIANT CacheIsDurable
CHECK_DEADLOCK FALSE
