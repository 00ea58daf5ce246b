CONSTANTS
    Op = {o1}
    Slot = {s1}
    NoSlot = NoSlot
    Lock = {clear, exact}
    Clear = clear
    MaxGeneration = 3
    MaxEpoch = 2
    Twins = TRUE
SPECIFICATION FairSpec
INVARIANTS
    TypeOK
    OneCallbackPending
    CancelSticks
    ReplyToRequester
PROPERTIES
    ResetBarrier
    EveryOperationEnds
CHECK_DEADLOCK FALSE
