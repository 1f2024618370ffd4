CONSTANTS
    k1 = k1
    k2 = k2
    k3 = k3
    q1 = q1
    q2 = q2
    q3 = q3
    q4 = q4
    sA = sA
    sB = sB
    sC = sC
    None = None
    Key = {k1, k2, k3}
    Req = {q1, q2, q3, q4}
    KeyOf <- MCKeyRetry
    Round = {r1}
    Upload = {u1, u2, u3}
    Bootstrap = {}
    Compat = {c1}
    Spec = {sA}
    LengthOf <- MCLength
    KMin = 2
    KTarget = 3
    EpochFolds = 1
    Backend = "s3"
    Faults = {}
SPECIFICATION CohortSpec
INVARIANT DeletedWhenDone
CHECK_DEADLOCK FALSE
