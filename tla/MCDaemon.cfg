CONSTANTS
    Path = {p1, p2}
    MaxModems = 1
    MaxGeneration = 3
    Published = {mm, l850}
    InitialDelay = 2
    MaxDelay = 5
    Budget = 3
SPECIFICATION FairSpec
INVARIANTS
    NeverDeaf
    InventoryCurrent
    DetailsSettle
PROPERTY
    ServiceRestored
CHECK_DEADLOCK FALSE
