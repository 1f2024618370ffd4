CONSTANTS
    None = None
    Torn = Torn
    Fold = {f1, f2}
    Loader = {l1}
    Puller = {}
    Compat = {c1}
    Rank = {8}
    EpochFolds = 2
    Backends = {"fs", "s3"}
    FaultSets = {{"version"}, {"read"}}
    MaxCrashes = 0
SPECIFICATION StoreSpec
INVARIANT FoldsAsReported
CHECK_DEADLOCK FALSE
