CONSTANTS
    l1 = l1  l2 = l2  l3 = l3  u1 = u1
    Band = {l1, l2, l3, u1}
    AnyBand = AnyBand
    Family <- Family_
    Supported <- Supported_
    RequestBandsMax = 2
    Section = {s1, s2}
    SafeSection = {s1}
    NoSection = NoSection
    Op = {o1, o2}
    NoOp = NoOp
    Intents <- OneIntent
    Modes <- OneMode
    MaxGen = 2
SPECIFICATION FairSpec
INVARIANTS
    OneAdvancedPerModem
    BandsReplyTruthful
    ModesReplyTruthful
PROPERTY
    EveryAdvancedEnds
CHECK_DEADLOCK FALSE
