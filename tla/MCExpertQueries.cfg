CONSTANTS
    Query = {q1, q2}
    MaxGen = 2
    Slot = Slot
SPECIFICATION FairSpec
INVARIANTS
    PendingIsBacked
PROPERTIES
    Arbitrated
    FreshCellSurvives
    QueriesEnd
CHECK_DEADLOCK FALSE
