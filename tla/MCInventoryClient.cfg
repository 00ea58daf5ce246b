CONSTANTS
    Path = {p1, p2}
    NoPath = NoPath
    Id = {i1, i2, i3}
    NoId = NoId
    Limit = 2
    MaxEpoch = 2
    MaxErrors = 1
    MaxBus = 2
SPECIFICATION ClientSpec
SYMMETRY Symmetry
INVARIANTS
    ReplyHolds
    IdsOwned
    CacheOfEpoch
    NoGhost
CHECK_DEADLOCK FALSE
