CONSTANTS
    k1 = k1
    k2 = k2
    q1 = q1
    q2 = q2
    None = None
    Key = {k1, k2}
    Req = {q1, q2}
    KeyOf <- MCKeyPair
    Round = {r1, r2}
    Upload = {u1, u2}
    Bootstrap = {d1}
    Compat = {c1}
    Spec = {sA}
    MaxCrashes = 1
    LengthOf <- MCLength
    KMin = 1
    KTarget = 2
    EpochFolds = 4
    Backend = "fs"
    Faults = {"open", "cleanup", "abort"}
SPECIFICATION FairRestartSpec
INVARIANTS
    WholeCohort
    TokenHeldOnce
    FoldOnce
    StagedUntilFolded
    FoldedLeavesNothing
PROPERTIES
    FrozenAtSeal
    EveryCallAnswered
    EveryCohortSettles
    EveryBootstrapSettles
CHECK_DEADLOCK FALSE
