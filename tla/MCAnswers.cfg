CONSTANTS
    l1 = l1  l2 = l2  l3 = l3  u1 = u1
    Band = {l1, l2, l3, u1}
    AnyBand = AnyBand
    Family <- Family_
    Supported <- Supported_
    RequestBandsMax = 2
    MaxResults = 3
    MaxSlots = 3
    Lines <- Lines_
    MaxLines <- MaxLines_
    Modes <- Modes_
SPECIFICATION Spec
INVARIANTS
    AnswersExact
    LockRoundTrip
    BandPolicyExact
CHECK_DEADLOCK FALSE
