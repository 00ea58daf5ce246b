CONSTANTS
    Op = {o1, o2}
    Token = {t1}
    NoToken = NoToken
    Content = {c1, c2}
    Proxy = {p1, p2}
    NoProxy = NoProxy
    NoOp = NoOp
    Capacity = 2
    MaxEpoch = 2
SPECIFICATION FairSpec
INVARIANTS
    DeduplicatedIsTrue
    OperationSettled
PROPERTIES
    DispatchedInItsEpoch
    EverySendEnds
CHECK_DEADLOCK FALSE
