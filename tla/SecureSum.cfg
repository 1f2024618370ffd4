CONSTANTS
    Key = {1, 2, 3}
    Factor = {1, 2}
    Size <- MCSize
    Fine = 4
    R = 16
    Width = 64
    Clip = 10
    Slack = 4
    Delta <- MCDelta
    Noise <- MCNoise
SPECIFICATION SumSpec
INVARIANTS
    TypeOK
    MasksCancel
    SumIsClose
    NormTestIsClose
    PartHidesMembers
CHECK_DEADLOCK FALSE
