CONSTANTS
    Op = {1, 2, 3, 4}
    Token = {t1, t2, t3}
    NoToken = NoToken
    Content = {c1}
    Proxy = {p1}
    NoProxy = NoProxy
    NoOp = NoOp
    Capacity = 2
    MaxEpoch = 2
SPECIFICATION Spec
SYMMETRY Symmetry
CONSTRAINT Undisturbed
INVARIANTS
    QueueIsCurrent
    NoDuplicateSend
CHECK_DEADLOCK FALSE
