CONSTANTS
    Op = {o1, o2}
    Token = {t1, t2}
    NoToken = NoToken
    Content = {c1}
    Proxy = {p1}
    NoProxy = NoProxy
    NoOp = NoOp
    Capacity = 2
    MaxEpoch = 2
SPECIFICATION Spec
SYMMETRY Symmetry
INVARIANT UnknownIsCached
CHECK_DEADLOCK FALSE
