CONSTANTS
    None = None
    Probe = {p1, p2, p3}
    Backends = {"fs", "s3"}
    BrokenSets = {{}, {"stage"}, {"global"}, {"version"}, {"read"}, {"delete"}}
    MaxCrashes = 1
SPECIFICATION HealthSpec
INVARIANTS
    TypeOK
    LoneProbeIsRight
    NothingLeft
CHECK_DEADLOCK FALSE
