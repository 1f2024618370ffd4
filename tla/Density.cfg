CONSTANTS
    None = None
    Model = {m1, m2, m3}
    Allowlist = {m1, m2}
    IP = {i1, i2, i3}
    Threshold = 2
    Window = 1
SPECIFICATION DensitySpec
INVARIANTS
    TypeOK
    ModeIsDensity
PROPERTIES
    PollingIsHarmless
    BusyEnds
CHECK_DEADLOCK FALSE
