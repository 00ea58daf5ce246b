CONSTANTS
    Op = {o1, o2}
    Slot = {s1}
    NoSlot = NoSlot
    Lock = {clear, exact}
    Clear = clear
    MaxGeneration = 2
    MaxEpoch = 1
    Twins = FALSE
SPECIFICATION Spec
SYMMETRY Symmetry
INVARIANTS
    SlotExclusion
    LockOwned
    LockSurvivesReset
    RetryableMeansUnwritten
    NoLateOverwrite
PROPERTIES
    VerifiedIsTrue
    Arbitrated
CHECK_DEADLOCK FALSE
