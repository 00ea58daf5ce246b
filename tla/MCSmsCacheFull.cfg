CONSTANTS
    Path = {p1, p2}
    NoPath = NoPath
    Id = {i1, i2, i3}
    NoId = NoId
    Limit = 1
    MaxEpoch = 1
    MaxErrors = 1
    MaxBus = 2
SPECIFICATION FairSpec
INVARIANTS
    QuietMeansComplete
PROPERTIES
    Converges
CHECK_DEADLOCK FALSE
